---- MODULE Spec2Model ----
(***************************************************************************)
(* State-machine model of the brachisto-probe simulation core.             *)
(*                                                                         *)
(*   SpecT1     the v1 TransferSystem (engine/systems/transfer_system.js): *)
(*              one-time and continuous transfers of probes and metal,     *)
(*              with pause, rate change, delete and the per-tick pass.     *)
(*   SpecT1Api  the same transfer API with the result of every call        *)
(*              recorded, for what a rejected create leaves behind.        *)
(*   SpecE2     the v2 GameEngine (engine_v2/engine.js): performAction     *)
(*              and the tick's time step and transfer pass.                *)
(*   SpecW      the v2 worker (engine_v2/engine.worker.js): its message    *)
(*              handlers, the suspended starts and the interval timers.    *)
(*   SpecWA     the worker with its action requests and their replies.     *)
(*   SpecM      the v2 tick in full: energy balance, mining, replication,  *)
(*              Dyson construction, transfers and recycling.               *)
(*   SpecN      the v2 tick with the metal spent on structures.            *)
(*   SpecQ      the v2 tick with probes replicating in two zones.          *)
(*   SpecT2     the v1 transfer pass over several continuous transfers     *)
(*              from one zone, with a mass driver built on the way.        *)
(*   SpecT3     SpecT2 with a stock whose shares fill the mass driver.     *)
(*   SpecR      one research tier of the compounding system described in   *)
(*              PROBES_AND_SKILLS.md.                                      *)
(*   SpecP      the v2 engine under ticks and probe transfers that have    *)
(*              the time to arrive.                                        *)
(*   SpecI      SpecP with an engine started again from the state the      *)
(*              previous one has reached (GameEngine.initialize).          *)
(*   SpecS      the v2 tick with recycling, under salvage research.        *)
(*                                                                         *)
(* Numbers.  The code computes in IEEE doubles; the model uses integers:   *)
(*   - time is counted in whole days, a tick advances it by 1 or 2 days;   *)
(*   - the fractional send accumulators are kept in hundredths of a unit   *)
(*     (AccScale), which is exact because every rate is a percentage of    *)
(*     an integer quantity;                                                *)
(*   - Infinity is a sentinel that absorbs addition, Null is JSON's null.  *)
(***************************************************************************)
EXTENDS Integers, Sequences, FiniteSets, TLC

\* ------------------------------------------------------------------ bounds
\* Last day a tick may start from (the horizon of the exploration).
MaxTime == 2
\* Number of transfer ids that createTransfer may hand out.
MaxTransfers == 1
\* Number of start messages the worker handles (one engine each).
MaxStarts == 2
\* Number of ticks, and of tick-driven state updates, the worker runs.
MaxTicks == 2

\* --------------------------------------------------------- numeric helpers
\* Number.POSITIVE_INFINITY, as returned by calculateTransferTime on a miss.
Infinity == 1000000
\* Hundredths: the accumulators' fixed-point scale (1.00 unit = AccScale).
AccScale == 100

isFinite(x) == x # Infinity
Plus(a, b) == IF a = Infinity \/ b = Infinity THEN Infinity ELSE a + b
Min(a, b) == IF a <= b THEN a ELSE b
Max(a, b) == IF a >= b THEN a ELSE b
Abs(a) == IF a < 0 THEN -a ELSE a

\* Sum of the values of a function with a finite domain.
RECURSIVE SumFn(_)
SumFn(f) ==
    IF DOMAIN f = {} THEN 0
    ELSE LET x == CHOOSE y \in DOMAIN f : TRUE
         IN  f[x] + SumFn([y \in DOMAIN f \ {x} |-> f[y]])

\* Array.splice(i, 1) on a 1-based sequence.
RemoveAt(s, i) == SubSeq(s, 1, i - 1) \o SubSeq(s, i + 1, Len(s))

\* ------------------------------------------------------------ zone registry
\* OrbitalMechanics.orbitalZones: the ids the data loader supplies.  The
\* orbital radii are in model units chosen so that every duration is whole.
Zones == {"earth", "mars"}
\* An id that is in no registry (a typo, a stale id from an old save).
UnknownZone == "vulcan"
ZoneIds == Zones \cup {UnknownZone}
radius_au == [z \in Zones |-> IF z = "earth" THEN 1 ELSE 2]
\* Days per model radius unit along the half ellipse (arcLength / speed).
DaysPerRadiusUnit == 4

getZone(zoneId) == IF zoneId \in Zones THEN zoneId ELSE "null"

\* OrbitalMechanics.calculateTransferTime: Infinity when a zone is missing,
\* 0 between equal radii, otherwise the arc length over the cargo speed.
calculateTransferTime(fromZoneId, toZoneId) ==
    IF getZone(fromZoneId) = "null" \/ getZone(toZoneId) = "null" THEN Infinity
    ELSE IF radius_au[fromZoneId] = radius_au[toZoneId] THEN 0
    ELSE DaysPerRadiusUnit * Abs(radius_au[fromZoneId] - radius_au[toZoneId])

\* ------------------------------------------------------------------- state
VARIABLES
    time,                   \* state.time (days)
    probes_by_zone,         \* state.probes_by_zone[zone]['probe']
    stored_metal,           \* state.zones[zone].stored_metal (kg)
    structures_by_zone,     \* state.structures_by_zone[zone]['mass_driver']
    derived,                \* state.derived.zones[zone].probe_production_rate
    active_transfers,       \* state.active_transfers
    continuousAccumulators, \* TransferSystem.continuousAccumulators (a Map)
    nextTransferId,         \* the ids generateTransferId has handed out so far
    ledger,                 \* history: per transfer, what it debited/credited
    result,                 \* history: what the last call of the API returned
    state,                  \* GameEngine (v2): this.state
    timeSpeed,              \* GameEngine (v2): this.timeManager's speed
    engine,                 \* worker: engine (0 is null)
    isRunning,              \* worker: isRunning
    tickInterval,           \* worker: tickInterval (0 is null)
    uiUpdateCounter,        \* worker: uiUpdateCounter
    dataLoader,             \* worker: dataLoader and how far its loadAll got
    starts,                 \* worker: engines constructed so far
    starting,               \* worker: handleStart calls suspended at the await
    initialized,            \* per engine: GameEngine.initialized
    engineSpeed,            \* per engine: timeManager speed (hundredths)
    timers,                 \* intervals set and not cleared
    lastMessage,            \* history: type of the last message posted
    stopped,                \* history: stop handled, no start message since
    ticksRun,               \* history: engine ticks that ran
    updatesSent,            \* history: stateUpdate messages posted by tick()
    initCompleted,          \* history: an init has posted initComplete
    actionRequest,          \* history: actionId of the last action message
    actionReplies           \* history: what handling that message posted

t1vars == <<time, probes_by_zone, stored_metal, structures_by_zone, derived,
            active_transfers, continuousAccumulators, nextTransferId, ledger>>
e2vars == <<state, timeSpeed>>
wvars == <<engine, isRunning, tickInterval, uiUpdateCounter, dataLoader, starts,
           starting, initialized, engineSpeed, timers, lastMessage, stopped,
           ticksRun, updatesSent, initCompleted, actionRequest, actionReplies>>
vars == <<t1vars, result, e2vars, wvars>>

TransferIds == 1 .. MaxTransfers
\* derived.zones[z].probe_production_rate === undefined
Undefined == -1
\* probe_allocations_by_zone[z].replicate, the fallback's input.
replicate_allocation == [z \in Zones |-> IF z = "earth" THEN 1 ELSE 0]

\* ------------------------------------------------- TransferSystem (v1) code
\* A faulty hasMassDriver: every zone passes.
hasMassDriverAlways(structures, zoneId) == TRUE

hasMassDriver(structures, zoneId) ==
    (IF zoneId \in DOMAIN structures THEN structures[zoneId] ELSE 0) > 0

calculateMassDriverSpeedMultiplierHalves(massDriverCount, t) ==
    IF massDriverCount = 0 \/ t = Infinity THEN t ELSE t \div 2

\* Model-scaled mass_driver.metal_launch_capacity_kg_per_day (100e12 in the
\* code, beyond TLC's integers): kg/day per driver.
baseCapacityPerDriver == 1000

calculateMetalTransferCapacity(structures, zoneId) ==
    LET massDriverCount == IF zoneId \in DOMAIN structures
                           THEN structures[zoneId] ELSE 0
    IN  IF massDriverCount = 0 THEN 0
        ELSE baseCapacityPerDriver * massDriverCount

\* calculateUsedMetalCapacity, in hundredths of kg/day: the sum over the
\* other unpaused continuous metal transfers of storedMetal * pct / 100.
RECURSIVE UsedMetalFrom(_, _, _, _, _)
UsedMetalFrom(transfers, metal, zoneId, excludeTransferId, i) ==
    IF i > Len(transfers) THEN 0
    ELSE LET t == transfers[i]
             counted == /\ ~(excludeTransferId # 0 /\ t.id = excludeTransferId)
                        /\ t.from_zone = zoneId
                        /\ t.resource_type = "metal"
                        /\ ~t.paused
                        /\ t.type = "continuous"
         IN  (IF counted THEN metal[zoneId] * t.metal_rate_percentage ELSE 0)
             + UsedMetalFrom(transfers, metal, zoneId, excludeTransferId, i + 1)

\* A faulty calculateUsedMetalCapacity: the other transfers' requests are
\* not counted against the zone's capacity.
calculateUsedMetalCapacityOfNone(transfers, metal, zoneId, excludeTransferId) ==
    0

calculateUsedMetalCapacity(transfers, metal, zoneId, excludeTransferId) ==
    UsedMetalFrom(transfers, metal, zoneId, excludeTransferId, 1)

\* getAvailableMetalCapacity, in hundredths of kg/day.
getAvailableMetalCapacity(transfers, metal, structures, zoneId, excludeId) ==
    Max(0, calculateMetalTransferCapacity(structures, zoneId) * AccScale
           - calculateUsedMetalCapacity(transfers, metal, zoneId, excludeId))

\* getZoneProbeProductionRate (probes/day): the cached derived rate when
\* there is one, else totalProbes * replicate allocation (build rate 100
\* kg/day per probe over a probe mass of 100 kg, upgrade factor 1).
getZoneProbeProductionRate(probes, zoneId) ==
    IF derived[zoneId] # Undefined THEN derived[zoneId]
    ELSE IF probes[zoneId] <= 0 \/ replicate_allocation[zoneId] <= 0 THEN 0
    ELSE probes[zoneId] * replicate_allocation[zoneId]

\* The duration processContinuousTransfer and createTransfer compute: the
\* registry's time, halved by a mass driver at the source, tripled for
\* metal bound for the Dyson zone.
EffectiveTransferTime(structures, fromZoneId, toZoneId, resourceType) ==
    LET base == calculateTransferTime(fromZoneId, toZoneId)
        massDriverCount == IF fromZoneId \in DOMAIN structures
                           THEN structures[fromZoneId] ELSE 0
        driven == calculateMassDriverSpeedMultiplierHalves(massDriverCount, base)
        isDysonDestination == toZoneId \in {"dyson_sphere", "dyson"}
    IN  IF isDysonDestination /\ resourceType = "metal" /\ driven # Infinity
        THEN driven * 3 ELSE driven

\* ------------------------------------------------------- the transfer pass
\* The pass works on a deep clone of the state; PassState is that clone plus
\* the Map of accumulators and the history ledger.
PassState(probes, metal, transfers, acc, led) ==
    [probes |-> probes, metal |-> metal, transfers |-> transfers,
     acc |-> acc, ledger |-> led]

MIN_PROBE_BATCH == 1
MIN_METAL_BATCH_KG == 100

\* A faulty loop: the stock is not looked at, so the whole accumulated
\* amount leaves in one batch whatever the source holds.
DispatchLoopIgnoringStock(d, minBatch, currentTime, baseTransferTime) ==
    IF ~(d.accumulated >= minBatch * AccScale) THEN d
    ELSE LET batch == d.accumulated \div AccScale
         IN  [accumulated |-> d.accumulated - batch * AccScale,
              stock |-> Max(0, d.stock - batch),
              in_transit |-> Append(d.in_transit,
                  [amount |-> batch,
                   departure_time |-> currentTime,
                   arrival_time |-> Plus(currentTime, baseTransferTime)]),
              arrival_time |-> Plus(currentTime, baseTransferTime)]

\* The while loop of processContinuousTransfer: while the accumulator and
\* the stock both hold a minimum batch, send floor(min(accumulated,
\* available)), debit it, enqueue it with the duration in effect now.
\* d is [accumulated, stock, in_transit, arrival_time]; accumulated is in
\* hundredths, stock in whole units.
RECURSIVE DispatchLoop(_, _, _, _)
DispatchLoop(d, minBatch, currentTime, baseTransferTime) ==
    IF ~(d.accumulated >= minBatch * AccScale /\ d.stock >= minBatch) THEN d
    ELSE LET batch == Min(d.accumulated \div AccScale, d.stock)
         IN  IF batch >= minBatch
             THEN DispatchLoop(
                    [accumulated |-> d.accumulated - batch * AccScale,
                     stock |-> Max(0, d.stock - batch),
                     in_transit |-> Append(d.in_transit,
                         [amount |-> batch,
                          departure_time |-> currentTime,
                          arrival_time |-> Plus(currentTime, baseTransferTime)]),
                     arrival_time |-> Plus(currentTime, baseTransferTime)],
                    minBatch, currentTime, baseTransferTime)
             ELSE d

\* What one dispatch step asks for, in hundredths per day: the probe rate is
\* a percentage of the zone's probe production, the metal rate a percentage
\* of the stored metal capped at the capacity the other transfers leave.
ProbeSendRate(st, t) ==
    getZoneProbeProductionRate(st.probes, t.from_zone) * t.rate_percentage

MetalSendRate(st, t) ==
    Min(st.metal[t.from_zone] * t.metal_rate_percentage,
        getAvailableMetalCapacity(st.transfers, st.metal, structures_by_zone,
                                  t.from_zone, t.id))

\* A faulty dispatch: when the recomputed transfer_time differs from the
\* transfer's last one, the queued batches' arrival times move with it.
processContinuousTransferRestamps(st, i, deltaTime, currentTime) ==
    LET t0 == st.transfers[i]
        baseTransferTime == EffectiveTransferTime(structures_by_zone,
                               t0.from_zone, t0.to_zone, t0.resource_type)
        t == [t0 EXCEPT !.transfer_time = baseTransferTime]
        early == [st EXCEPT !.transfers[i] = t]
        isProbe == t.resource_type = "probe"
        stock == IF isProbe THEN st.probes[t.from_zone] ELSE st.metal[t.from_zone]
        sendRate == IF isProbe THEN ProbeSendRate(st, t) ELSE MetalSendRate(st, t)
        d == DispatchLoop(
                [accumulated |-> st.acc[t.id] + sendRate * deltaTime,
                 stock |-> stock,
                 in_transit |-> t.in_transit,
                 arrival_time |-> t.arrival_time],
                IF isProbe THEN MIN_PROBE_BATCH ELSE MIN_METAL_BATCH_KG,
                currentTime, baseTransferTime)
        restamped == [k \in 1 .. Len(d.in_transit) |->
                         [d.in_transit[k] EXCEPT
                             !.arrival_time =
                                 Plus(@, baseTransferTime - t0.transfer_time)]]
        sent == [t EXCEPT !.in_transit = restamped,
                          !.arrival_time = d.arrival_time,
                          !.last_send_time = currentTime]
    IN  IF isProbe /\ (t.rate_percentage <= 0
                       \/ getZoneProbeProductionRate(st.probes, t.from_zone) <= 0)
        THEN early
        ELSE IF ~isProbe /\ (t.metal_rate_percentage <= 0
                             \/ st.metal[t.from_zone] * t.metal_rate_percentage <= 0)
        THEN early
        ELSE [st EXCEPT
                !.transfers[i] = sent,
                !.acc[t.id] = d.accumulated,
                !.probes[t.from_zone] = IF isProbe THEN d.stock ELSE @,
                !.metal[t.from_zone] = IF isProbe THEN @ ELSE d.stock,
                !.ledger[t.id].debited = @ + (stock - d.stock)]

processContinuousTransfer(st, i, deltaTime, currentTime) ==
    LET t0 == st.transfers[i]
        baseTransferTime == EffectiveTransferTime(structures_by_zone,
                               t0.from_zone, t0.to_zone, t0.resource_type)
        t == [t0 EXCEPT !.transfer_time = baseTransferTime]
        early == [st EXCEPT !.transfers[i] = t]
        isProbe == t.resource_type = "probe"
        stock == IF isProbe THEN st.probes[t.from_zone] ELSE st.metal[t.from_zone]
        sendRate == IF isProbe THEN ProbeSendRate(st, t) ELSE MetalSendRate(st, t)
        d == DispatchLoop(
                [accumulated |-> st.acc[t.id] + sendRate * deltaTime,
                 stock |-> stock,
                 in_transit |-> t.in_transit,
                 arrival_time |-> t.arrival_time],
                IF isProbe THEN MIN_PROBE_BATCH ELSE MIN_METAL_BATCH_KG,
                currentTime, baseTransferTime)
        sent == [t EXCEPT !.in_transit = d.in_transit,
                          !.arrival_time = d.arrival_time,
                          !.last_send_time = currentTime]
    IN  IF isProbe /\ (t.rate_percentage <= 0
                       \/ getZoneProbeProductionRate(st.probes, t.from_zone) <= 0)
        THEN early
        ELSE IF ~isProbe /\ (t.metal_rate_percentage <= 0
                             \/ st.metal[t.from_zone] * t.metal_rate_percentage <= 0)
        THEN early
        ELSE [st EXCEPT
                !.transfers[i] = sent,
                !.acc[t.id] = d.accumulated,
                !.probes[t.from_zone] = IF isProbe THEN d.stock ELSE @,
                !.metal[t.from_zone] = IF isProbe THEN @ ELSE d.stock,
                !.ledger[t.id].debited = @ + (stock - d.stock)]

\* processContinuousArrivals: every queued batch whose arrival_time has
\* passed leaves the queue and is added to the destination's stock.
RECURSIVE ArrivedAmount(_, _)
ArrivedAmount(queue, currentTime) ==
    IF queue = <<>> THEN 0
    ELSE (IF Head(queue).arrival_time <= currentTime THEN Head(queue).amount ELSE 0)
         + ArrivedAmount(Tail(queue), currentTime)

\* A faulty StillInTransit: the arrival pass empties the whole queue as soon
\* as one batch has arrived.
StillInTransitClearsQueue(queue, currentTime) ==
    IF \E k \in 1 .. Len(queue) : queue[k].arrival_time <= currentTime
    THEN <<>> ELSE queue

StillInTransit(queue, currentTime) ==
    SelectSeq(queue, LAMBDA b : ~(b.arrival_time <= currentTime))

\* A faulty arrival pass: nothing is credited while the transfer is paused
\* or its rate is zero.
processContinuousArrivalsWhileSending(st, i, currentTime) ==
    LET t == st.transfers[i]
        totalArrived == ArrivedAmount(t.in_transit, currentTime)
        isProbe == t.resource_type = "probe"
    IN  IF t.in_transit = <<>> \/ t.paused \/ t.rate_percentage = 0 THEN st
        ELSE [st EXCEPT
                !.transfers[i].in_transit = StillInTransit(t.in_transit, currentTime),
                !.probes[t.to_zone] = IF isProbe THEN @ + totalArrived ELSE @,
                !.metal[t.to_zone] = IF isProbe THEN @ ELSE @ + totalArrived,
                !.ledger[t.id].credited = @ + totalArrived,
                !.ledger[t.id].credited_paused =
                    @ + (IF t.paused THEN totalArrived ELSE 0)]

processContinuousArrivals(st, i, currentTime) ==
    LET t == st.transfers[i]
        totalArrived == ArrivedAmount(t.in_transit, currentTime)
        isProbe == t.resource_type = "probe"
    IN  IF t.in_transit = <<>> THEN st
        ELSE [st EXCEPT
                !.transfers[i].in_transit = StillInTransit(t.in_transit, currentTime),
                !.probes[t.to_zone] = IF isProbe THEN @ + totalArrived ELSE @,
                !.metal[t.to_zone] = IF isProbe THEN @ ELSE @ + totalArrived,
                !.ledger[t.id].credited = @ + totalArrived,
                !.ledger[t.id].credited_paused =
                    @ + (IF t.paused THEN totalArrived ELSE 0)]

\* completeOneTimeTransfer: credit the destination and mark the transfer
\* completed; a probe transfer of no probes returns before marking it.
completeOneTimeTransfer(st, i) ==
    LET t == st.transfers[i]
    IN  IF t.resource_type = "probe"
        THEN IF t.amount <= 0 THEN st
             ELSE [st EXCEPT !.probes[t.to_zone] = @ + t.amount,
                             !.transfers[i].status = "completed",
                             !.ledger[t.id].credited = @ + t.amount]
        ELSE [st EXCEPT !.metal[t.to_zone] = @ + t.amount,
                        !.transfers[i].status = "completed",
                        !.ledger[t.id].credited = @ + t.amount]

\* A faulty iteration: a paused continuous transfer is skipped altogether,
\* arrivals included.
ProcessOneTransferSkipsPaused(st, i, deltaTime, currentTime) ==
    LET t == st.transfers[i]
    IN  IF t.type = "continuous"
        THEN IF t.paused THEN st
             ELSE processContinuousArrivals(
                     processContinuousTransfer(st, i, deltaTime, currentTime),
                     i, currentTime)
        ELSE IF t.status = "paused" THEN st
        ELSE IF t.arrival_time <= currentTime /\ t.status = "traveling"
        THEN completeOneTimeTransfer(st, i)
        ELSE st

\* One iteration of processTransfers' loop over active_transfers.
ProcessOneTransfer(st, i, deltaTime, currentTime) ==
    LET t == st.transfers[i]
    IN  IF t.type = "continuous"
        THEN processContinuousArrivals(
                 IF ~t.paused
                 THEN processContinuousTransfer(st, i, deltaTime, currentTime)
                 ELSE st,
                 i, currentTime)
        ELSE IF t.status = "paused" THEN st
        ELSE IF t.arrival_time <= currentTime /\ t.status = "traveling"
        THEN completeOneTimeTransfer(st, i)
        ELSE st

\* A faulty test: a paused one-time transfer whose arrival time has passed
\* is spliced out, too.
CompletesAtIgnoringPause(transfers, i, currentTime) ==
    LET t == transfers[i]
    IN  /\ t.type # "continuous"
        /\ t.arrival_time <= currentTime

\* Whether iteration i pushes i onto completedTransfers.
CompletesAt(transfers, i, currentTime) ==
    LET t == transfers[i]
    IN  /\ t.type # "continuous"
        /\ t.status # "paused"
        /\ t.arrival_time <= currentTime
        /\ t.status = "traveling"

RECURSIVE ProcessLoop(_, _, _, _)
ProcessLoop(st, i, deltaTime, currentTime) ==
    IF i > Len(st.transfers) THEN st
    ELSE ProcessLoop(ProcessOneTransfer(st, i, deltaTime, currentTime),
                     i + 1, deltaTime, currentTime)

\* The indices spliced out after the loop.
RECURSIVE KeepUncompleted(_, _, _, _)
KeepUncompleted(before, after, i, currentTime) ==
    IF i > Len(after) THEN <<>>
    ELSE (IF CompletesAt(before, i, currentTime) THEN <<>> ELSE <<after[i]>>)
         \o KeepUncompleted(before, after, i + 1, currentTime)

processTransfers(st, deltaTime, currentTime) ==
    LET done == ProcessLoop(st, 1, deltaTime, currentTime)
    IN  [done EXCEPT !.transfers =
            KeepUncompleted(st.transfers, done.transfers, 1, currentTime)]

\* ------------------------------------------------------------ createTransfer
\* TransferSystem.createTransfer's verdict: "ok" or the error it returns.
\* It validates the zone ids first, then (metal) the mass driver and the
\* remaining capacity, then the duration before and after the mass-driver
\* multiplier, and last the arrival time of the record it built.
createTransferError(fromZoneId, toZoneId, resourceType, type, ratePercentage) ==
    LET transferTime == calculateTransferTime(fromZoneId, toZoneId)
        massDriverCount == IF fromZoneId \in DOMAIN structures_by_zone
                           THEN structures_by_zone[fromZoneId] ELSE 0
        driven == calculateMassDriverSpeedMultiplierHalves(massDriverCount,
                                                           transferTime)
        final == EffectiveTransferTime(structures_by_zone, fromZoneId,
                                       toZoneId, resourceType)
    IN  IF getZone(fromZoneId) = "null" \/ getZone(toZoneId) = "null"
        THEN "Zone not found"
        ELSE IF resourceType = "metal"
                /\ ~hasMassDriver(structures_by_zone, fromZoneId)
        THEN "Mass driver required for metal transfers"
        ELSE IF resourceType = "metal" /\ type = "continuous"
                /\ ratePercentage > 0
                /\ getAvailableMetalCapacity(active_transfers, stored_metal,
                        structures_by_zone, fromZoneId, 0) <= 0
        THEN "No mass driver capacity available"
        ELSE IF transferTime = 0 \/ ~isFinite(transferTime) \/ transferTime <= 0
        THEN "Invalid transfer time"
        ELSE IF massDriverCount > 0
                /\ (driven = 0 \/ ~isFinite(driven) \/ driven <= 0)
        THEN "Invalid transfer time after multiplier"
        ELSE IF Plus(time, final) = 0 \/ ~isFinite(Plus(time, final))
        THEN "Failed to create transfer: invalid arrival time"
        ELSE "ok"

\* The continuous metal rate createTransfer stores: the request, replaced by
\* the available capacity (kg/day) when the request exceeds that number.
CappedMetalRate(fromZoneId, ratePercentage) ==
    LET availableCapacity == getAvailableMetalCapacity(active_transfers,
            stored_metal, structures_by_zone, fromZoneId, 0)
    IN  IF ratePercentage > 0 /\ ratePercentage * AccScale > availableCapacity
        THEN availableCapacity \div AccScale
        ELSE ratePercentage

\* The record createTransfer returns on success.
createTransfer(id, fromZoneId, toZoneId, resourceType, resourceCount, type, ratePercentage) ==
    LET transferTime == EffectiveTransferTime(structures_by_zone, fromZoneId,
                                              toZoneId, resourceType)
        continuous == type = "continuous"
    IN  [id |-> id,
         from_zone |-> fromZoneId,
         to_zone |-> toZoneId,
         resource_type |-> resourceType,
         type |-> type,
         transfer_time |-> transferTime,
         status |-> "traveling",
         paused |-> FALSE,
         amount |-> IF continuous THEN 0 ELSE resourceCount,
         rate_percentage |->
             IF continuous /\ resourceType = "probe" THEN ratePercentage ELSE 0,
         metal_rate_percentage |->
             IF continuous /\ resourceType = "metal"
             THEN CappedMetalRate(fromZoneId, ratePercentage) ELSE 0,
         in_transit |-> <<>>,
         last_send_time |-> time,
         departure_time |-> time,
         arrival_time |-> Plus(time, transferTime)]

\* The stock a one-time transfer draws on.
SourceStock(fromZoneId, resourceType) ==
    IF fromZoneId \notin Zones THEN 0
    ELSE IF resourceType = "probe" THEN probes_by_zone[fromZoneId]
    ELSE stored_metal[fromZoneId]

\* The engine's create_transfer around createTransfer and addTransfer: a
\* one-time transfer is rejected when the source holds less than the
\* quantity, and is debited from the source when it is created.
EngineCreateError(fromZoneId, toZoneId, resourceType, resourceCount, type, ratePercentage) ==
    LET err == createTransferError(fromZoneId, toZoneId, resourceType, type,
                                   ratePercentage)
    IN  IF err # "ok" THEN err
        ELSE IF type = "one-time"
                /\ SourceStock(fromZoneId, resourceType) < resourceCount
        THEN "Insufficient stock"
        ELSE "ok"

\* The engine's debit of a one-time transfer's cargo at departure.
debitAtDeparture(stock, fromZoneId, resourceCount, applies) ==
    IF applies THEN [stock EXCEPT ![fromZoneId] = @ - resourceCount] ELSE stock

ZeroLedger == [debited |-> 0, credited |-> 0, credited_paused |-> 0]

CreateTransferStep(fromZoneId, toZoneId, resourceType, resourceCount, type, ratePercentage) ==
    LET err == EngineCreateError(fromZoneId, toZoneId, resourceType,
                                 resourceCount, type, ratePercentage)
        id == nextTransferId
        transfer == createTransfer(id, fromZoneId, toZoneId, resourceType,
                                   resourceCount, type, ratePercentage)
        debitProbes == type = "one-time" /\ resourceType = "probe"
        debitMetal == type = "one-time" /\ resourceType = "metal"
    IN  IF err # "ok"
        THEN UNCHANGED <<time, probes_by_zone, stored_metal,
                            structures_by_zone, derived, active_transfers,
                            continuousAccumulators, nextTransferId, ledger>>
        ELSE /\ active_transfers' = Append(active_transfers, transfer)
             /\ nextTransferId' = nextTransferId + 1
             /\ continuousAccumulators' =
                    IF type = "continuous"
                    THEN [continuousAccumulators EXCEPT ![id] = 0]
                    ELSE continuousAccumulators
             /\ probes_by_zone' = debitAtDeparture(probes_by_zone, fromZoneId,
                                                   resourceCount, debitProbes)
             /\ stored_metal' = debitAtDeparture(stored_metal, fromZoneId,
                                                 resourceCount, debitMetal)
             /\ ledger' =
                    [ledger EXCEPT ![id] =
                        [ZeroLedger EXCEPT !.debited =
                            IF type = "one-time" THEN resourceCount ELSE 0]]
             /\ UNCHANGED <<time, structures_by_zone, derived>>

\* A create call while generateTransferId still has an id to hand out.
T1CreateTransfer(fromZoneId, toZoneId, resourceType, resourceCount, type, ratePercentage) ==
    /\ nextTransferId <= MaxTransfers
    /\ CreateTransferStep(fromZoneId, toZoneId, resourceType, resourceCount,
                          type, ratePercentage)

\* ---------------------------------------------- pause, rate, delete, tick
IndexOfTransfer(transfers, transferId) ==
    IF \E i \in 1 .. Len(transfers) : transfers[i].id = transferId
    THEN CHOOSE i \in 1 .. Len(transfers) :
            /\ transfers[i].id = transferId
            /\ \A j \in 1 .. i - 1 : transfers[j].id # transferId
    ELSE 0

\* pauseTransfer: a continuous transfer gets its paused flag, a one-time
\* transfer its status.
pauseTransfer(transfers, transferId, paused) ==
    LET i == IndexOfTransfer(transfers, transferId)
    IN  IF i = 0 THEN transfers
        ELSE IF transfers[i].type = "continuous"
        THEN [transfers EXCEPT ![i].paused = paused]
        ELSE [transfers EXCEPT ![i].status =
                                  IF paused THEN "paused" ELSE "traveling"]

T1PauseTransfer(transferId, paused) ==
    LET i == IndexOfTransfer(active_transfers, transferId)
    IN  /\ active_transfers' = pauseTransfer(active_transfers, transferId, paused)
        /\ UNCHANGED <<time, probes_by_zone, stored_metal, structures_by_zone,
                       derived, continuousAccumulators, nextTransferId, ledger>>

\* updateTransferRate: only for a continuous transfer; the rate is clamped
\* to [0, 100] and stored in rate_percentage.
updateTransferRate(transfers, transferId, ratePercentage) ==
    LET i == IndexOfTransfer(transfers, transferId)
    IN  IF i = 0 \/ transfers[i].type # "continuous" THEN transfers
        ELSE [transfers EXCEPT ![i].rate_percentage =
                                  Max(0, Min(100, ratePercentage))]

T1UpdateTransferRate(transferId, ratePercentage) ==
    LET i == IndexOfTransfer(active_transfers, transferId)
    IN  /\ active_transfers' =
               updateTransferRate(active_transfers, transferId, ratePercentage)
        /\ UNCHANGED <<time, probes_by_zone, stored_metal, structures_by_zone,
                       derived, continuousAccumulators, nextTransferId, ledger>>

\* deleteTransfer: what it gives back to the source zone.  Only a continuous
\* transfer with a non-empty in_transit queue returns anything: the sum of
\* the queued batches.
RECURSIVE InTransitTotal(_)
InTransitTotal(queue) ==
    IF queue = <<>> THEN 0
    ELSE Head(queue).amount + InTransitTotal(Tail(queue))

deleteTransferRefund(transfer) ==
    IF transfer.type = "continuous" /\ transfer.in_transit # <<>>
    THEN InTransitTotal(transfer.in_transit)
    ELSE 0

T1DeleteTransfer(transferId) ==
    LET i == IndexOfTransfer(active_transfers, transferId)
        t == active_transfers[i]
        refund == deleteTransferRefund(t)
    IN  IF i = 0
        THEN UNCHANGED <<time, probes_by_zone, stored_metal,
                            structures_by_zone, derived, active_transfers,
                            continuousAccumulators, nextTransferId, ledger>>
        ELSE /\ probes_by_zone' =
                    IF t.resource_type = "probe"
                    THEN [probes_by_zone EXCEPT ![t.from_zone] = @ + refund]
                    ELSE probes_by_zone
             /\ stored_metal' =
                    IF t.resource_type = "metal"
                    THEN [stored_metal EXCEPT ![t.from_zone] = @ + refund]
                    ELSE stored_metal
             /\ continuousAccumulators' =
                    IF t.type = "continuous"
                    THEN [continuousAccumulators EXCEPT ![transferId] = 0]
                    ELSE continuousAccumulators
             /\ active_transfers' = RemoveAt(active_transfers, i)
             /\ UNCHANGED <<time, structures_by_zone, derived, nextTransferId,
                            ledger>>

\* One engine tick as far as transfers go: the clock advances by deltaTime,
\* then processTransfers runs on the state at the new time.
T1Tick(deltaTime) ==
    LET after == processTransfers(
                    PassState(probes_by_zone, stored_metal, active_transfers,
                              continuousAccumulators, ledger),
                    deltaTime, time + deltaTime)
    IN  /\ time <= MaxTime
        /\ time' = time + deltaTime
        /\ probes_by_zone' = after.probes
        /\ stored_metal' = after.metal
        /\ active_transfers' = after.transfers
        /\ continuousAccumulators' = after.acc
        /\ ledger' = after.ledger
        /\ UNCHANGED <<structures_by_zone, derived, nextTransferId>>

\* ------------------------------------------------------- inputs of the v1 API
DeltaTimes == {1, 2}
ProbeCounts == {1, 3}
MetalAmounts == {100, 400}
RatePercentages == {50}
NewRates == {-50, 0, 50}

T1InitWith(derivedRates) ==
    /\ time = 0
    /\ probes_by_zone = [z \in Zones |-> IF z = "earth" THEN 2 ELSE 0]
    /\ stored_metal = [z \in Zones |-> IF z = "earth" THEN 300 ELSE 100]
    /\ structures_by_zone = [z \in Zones |-> IF z = "earth" THEN 1 ELSE 0]
    /\ derived = derivedRates
    /\ active_transfers = <<>>
    /\ continuousAccumulators = [id \in TransferIds |-> 0]
    /\ nextTransferId = 1
    /\ ledger = [id \in TransferIds |-> ZeroLedger]

\* The derived rates are either absent (the fallback computes the rate) or
\* cached by the engine's last rate update.
NoDerivedRates == [z \in Zones |-> Undefined]
DerivedRates == {NoDerivedRates,
                 [z \in Zones |-> IF z = "earth" THEN 1 ELSE Undefined]}

\* ================================================ GameEngine v2 (engine.js)
\* JSON's null: what JSON.stringify makes of Infinity.
Null == -2

\* The building catalogue the data loader supplies, and an id not in it.
BuildingIds == {"mass_driver"}
UnknownBuilding == "warp_gate"
base_cost_metal == [b \in BuildingIds |-> 200]
\* purchaseProbe's cost: 100 kg per probe.
ProbeCostKg == 100

findBuilding(buildingId) ==
    IF buildingId \in BuildingIds THEN buildingId ELSE "null"

\* JSON.parse(JSON.stringify(state)): every subsystem's deep clone.  Numbers
\* survive, Infinity comes back as null.
JsonNumber(x) == IF x = Infinity THEN Null ELSE x

JsonClone(st) ==
    [st EXCEPT !.active_transfers =
        [i \in 1 .. Len(st.active_transfers) |->
            [st.active_transfers[i] EXCEPT !.arrival_time = JsonNumber(@)]]]

\* a <= b on JavaScript numbers, where null converts to 0.
JsLessEq(a, b) ==
    IF a = Null THEN 0 <= b
    ELSE IF a = Infinity THEN b = Infinity
    ELSE b = Infinity \/ a <= b

\* ---------------------------------------------------- TransferSystem (v2)
\* createTransfer: no validation; arrival_time = currentTime + transferTime.
createTransfer2(st, fromZoneId, toZoneId, probeCount) ==
    [from_zone |-> fromZoneId,
     to_zone |-> toZoneId,
     probe_count |-> probeCount,
     departure_time |-> st.time,
     arrival_time |-> Plus(st.time, calculateTransferTime(fromZoneId, toZoneId)),
     status |-> "traveling"]

addTransfer2(st, transfer) ==
    LET newState == JsonClone(st)
    IN  [newState EXCEPT !.active_transfers = Append(@, transfer)]

\* completeTransfer: the source is debited here, clamped at 0 and only when
\* it holds a non-zero count; the destination is credited.
completeTransfer2(st, i) ==
    LET transfer == st.active_transfers[i]
        probeCount == transfer.probe_count
        probesByZone == st.probes_by_zone
        debited == IF probesByZone[transfer.from_zone] # 0
                   THEN [probesByZone EXCEPT ![transfer.from_zone] =
                                                Max(0, @ - probeCount)]
                   ELSE probesByZone
        credited == [debited EXCEPT ![transfer.to_zone] = @ + probeCount]
    IN  [st EXCEPT !.probes_by_zone = credited,
                   !.active_transfers[i].status = "completed"]

CompletesAt2(transfers, i, currentTime) ==
    LET transfer == transfers[i]
    IN  /\ transfer.status # "paused"
        /\ JsLessEq(transfer.arrival_time, currentTime)
        /\ transfer.status = "traveling"

RECURSIVE ProcessLoop2(_, _, _)
ProcessLoop2(st, i, currentTime) ==
    IF i > Len(st.active_transfers) THEN st
    ELSE ProcessLoop2(
            IF CompletesAt2(st.active_transfers, i, currentTime)
            THEN completeTransfer2(st, i) ELSE st,
            i + 1, currentTime)

RECURSIVE KeepUncompleted2(_, _, _, _)
KeepUncompleted2(before, after, i, currentTime) ==
    IF i > Len(after) THEN <<>>
    ELSE (IF CompletesAt2(before, i, currentTime) THEN <<>> ELSE <<after[i]>>)
         \o KeepUncompleted2(before, after, i + 1, currentTime)

processTransfers2(st) ==
    LET newState == JsonClone(st)
        currentTime == newState.time
        done == ProcessLoop2(newState, 1, currentTime)
    IN  [done EXCEPT !.active_transfers =
            KeepUncompleted2(newState.active_transfers, done.active_transfers,
                             1, currentTime)]

\* ------------------------------------------------------ StructureSystem
addStructure(st, zoneId, count) ==
    LET newState == JsonClone(st)
    IN  [newState EXCEPT !.structures_by_zone[zoneId] = @ + count]

\* ------------------------------------------------------------ GameEngine
Outcome(st, res) == [state |-> st, result |-> res]

purchaseStructure(st, actionData) ==
    LET building == findBuilding(actionData.structure_id)
        totalCost == base_cost_metal[building] * actionData.count
    IN  IF building = "null" THEN Outcome(st, "Building not found")
        ELSE IF st.metal < totalCost THEN Outcome(st, "Insufficient metal")
        ELSE Outcome(addStructure([st EXCEPT !.metal = @ - totalCost],
                                  actionData.zone_id, actionData.count),
                     "ok")

\* A faulty purchaseProbe: the metal is deducted before the stock is checked.
purchaseProbeDebitsFirst(st, actionData) ==
    LET totalCost == ProbeCostKg * actionData.count
        paid == [st EXCEPT !.metal = @ - totalCost]
    IN  IF st.metal < totalCost THEN Outcome(paid, "Insufficient metal")
        ELSE Outcome([paid EXCEPT !.probes_by_zone[actionData.zone_id] =
                                      @ + actionData.count],
                     "ok")

purchaseProbe(st, actionData) ==
    LET totalCost == ProbeCostKg * actionData.count
    IN  IF st.metal < totalCost THEN Outcome(st, "Insufficient metal")
        ELSE Outcome([st EXCEPT !.metal = @ - totalCost,
                                !.probes_by_zone[actionData.zone_id] =
                                    @ + actionData.count],
                     "ok")

\* allocateProbes: every given fraction is clamped to [0, 1] (percent here).
allocateProbes(st, actionData) ==
    Outcome([st EXCEPT !.probe_allocations_by_zone[actionData.zone_id] =
                [key \in DOMAIN @ |->
                    IF key \in DOMAIN actionData.allocations
                    THEN Max(0, Min(100, actionData.allocations[key]))
                    ELSE @[key]]],
            "ok")

\* GameEngine.createTransfer: rejected when the source holds fewer probes
\* than asked for; otherwise the transfer is built and appended.
engineCreateTransfer(st, actionData) ==
    LET available == st.probes_by_zone[actionData.from_zone]
    IN  IF available < actionData.probe_count
        THEN Outcome(st, "Insufficient probes")
        ELSE Outcome(addTransfer2(st,
                        createTransfer2(st, actionData.from_zone,
                                        actionData.to_zone,
                                        actionData.probe_count)),
                     "ok")

\* TimeManager.setTimeSpeed as performAction calls it: speed || 1.0.
setTimeSpeed(speed) == IF speed = 0 THEN 1 ELSE speed
\* TimeManager.getDeltaTime: the days one tick covers at the current speed.
getDeltaTime(speed) == speed

\* performAction: the new state, the new speed and the result returned
\* ("ok" for success: true, else the error of success: false).
performAction(st, speed, actionType, actionData) ==
    LET done(o) == [state |-> o.state, timeSpeed |-> speed, result |-> o.result]
    IN  CASE actionType = "purchase_structure" ->
                done(purchaseStructure(st, actionData))
          [] actionType = "purchase_probe" ->
                done(purchaseProbe(st, actionData))
          [] actionType = "allocate_probes" ->
                done(allocateProbes(st, actionData))
          [] actionType = "create_transfer" ->
                done(engineCreateTransfer(st, actionData))
          [] actionType = "set_time_speed" ->
                [state |-> st, timeSpeed |-> setTimeSpeed(actionData.speed),
                 result |-> "ok"]
          [] OTHER ->
                [state |-> st, timeSpeed |-> speed,
                 result |-> "Unknown action type"]

\* ------------------------------------------------ the subsystems of a tick
\* Amounts are whole kg, powers are in units of PowerUnitW watts, the
\* allocations are percentages and the throttle is in hundredths; a quotient
\* is rounded down.  All skills are 1.0, as createInitialGameState sets them.
DysonZone == "dyson_sphere"
isDysonZone(zoneId) == zoneId = DysonZone
\* Zone data (orbital_mechanics.json): metal and total mass a zone starts with.
metal_stores_kg == 100
total_mass_kg == 500
PowerUnitW == 1000
\* BASE_PROBE_ENERGY: 100 kW per active probe.
BASE_PROBE_ENERGY == 100
\* Building data: the output of one energy structure (100 kW).
energy_production_per_second == 100
\* DYSON_POWER_PER_KG: 5 kW per kg of Dyson mass.
DYSON_POWER_PER_KG == 5
\* config.dyson_power_allocation || 0.5, in percent.
dyson_power_allocation == 50
METAL_TO_DYSON_RATIO == 2
BASE_MINING_RATE == 100
BASE_BUILDING_RATE == 100
PROBE_MASS == 100
\* CompositeSkillsCalculator: 50 kg/day of slag per recycling probe, of
\* which 75% comes back as metal.
baseRecycleRate == 50
baseRecyclingEfficiency == 75

\* The zones of an object in the order for...in visits them.
ZoneOrder == <<"earth", "mars", DysonZone, UnknownZone>>

\* DysonSystem.calculateDysonEnergyProduction: the economy share.
calculateDysonEnergyProduction(st) ==
    LET totalPower == st.dyson_sphere.mass * DYSON_POWER_PER_KG
    IN  [total |-> totalPower,
         economy |-> (totalPower * (100 - dyson_power_allocation)) \div 100]

\* EnergyCalculator.calculateEnergyProduction: the energy structures.
calculateEnergyProduction(st) ==
    SumFn([z \in DOMAIN st.energy_structures |->
              energy_production_per_second * st.energy_structures[z]])

\* EnergyCalculator.calculateProbeEnergyConsumption: a zone without probes
\* is skipped; the active share of the others consumes.
calculateProbeEnergyConsumption(st) ==
    SumFn([z \in DOMAIN st.probes_by_zone |->
              LET a == st.probe_allocations_by_zone[z]
              IN  (st.probes_by_zone[z]
                     * (a.harvest + a.construct + a.replicate + a.dyson)
                     * BASE_PROBE_ENERGY) \div 100])

\* The throttle of the v1 calculator (engine/calculations): 1 without
\* consumption, 0 without production, else production / consumption capped.
throttleOfV1(production, totalConsumption) ==
    IF totalConsumption > 0
    THEN (IF production > 0
          THEN Min(100, (100 * production) \div totalConsumption) ELSE 0)
    ELSE 100

\* The throttle of the v2 calculator:
\* production > 0 ? min(1, production / max(1, totalConsumption)) : 0,
\* the 1 being one watt.
throttleOf(production, totalConsumption) ==
    IF production > 0
    THEN Min(100, (100 * production * PowerUnitW)
                    \div Max(1, totalConsumption * PowerUnitW))
    ELSE 0

\* EnergyCalculator.calculateEnergyBalance (v2).  The probes are the only
\* consumers: no building kept here has an energy cost.
calculateEnergyBalance(st, dysonEnergyProduction) ==
    LET production == calculateEnergyProduction(st) + dysonEnergyProduction
        totalConsumption == calculateProbeEnergyConsumption(st)
    IN  [production |-> production,
         consumption |-> totalConsumption,
         net |-> production - totalConsumption,
         throttle |-> throttleOf(production, totalConsumption)]

\* ProductionCalculator.calculateMiningRate, for totalProbes probes of which
\* allocation percent mine (zone multiplier 1).
calculateMiningRate(totalProbes, allocation) ==
    IF totalProbes * allocation <= 0 THEN 0
    ELSE (BASE_MINING_RATE * totalProbes * allocation) \div 100

calculateBuildingRate(totalProbes, allocation) ==
    IF totalProbes * allocation <= 0 THEN 0
    ELSE (BASE_BUILDING_RATE * totalProbes * allocation) \div 100

\* OrbitalMechanics.getZoneMetallicity is metal_stores_kg / total_mass_kg;
\* this is actualExtraction / metallicity.
totalMassExtracted(actualExtraction) ==
    (actualExtraction * total_mass_kg) \div metal_stores_kg

\* A faulty extraction: what the rate yields, not capped by what is left.
actualExtractionUncapped(st, zoneId, deltaTime, energyThrottle) ==
    (calculateMiningRate(st.probes_by_zone[zoneId],
                         st.probe_allocations_by_zone[zoneId].harvest)
       * energyThrottle * deltaTime) \div 100

\* processMining, one zone: the metal taken out of it in this pass.
actualExtraction(st, zoneId, deltaTime, energyThrottle) ==
    LET effectiveMiningRateHundredths ==
            calculateMiningRate(st.probes_by_zone[zoneId],
                                st.probe_allocations_by_zone[zoneId].harvest)
              * energyThrottle
        metalExtracted == (effectiveMiningRateHundredths * deltaTime) \div 100
    IN  Min(metalExtracted, st.zones[zoneId].metal_remaining)

\* A faulty skip test: depleted zones are mined like the others.
minedIgnoringDepleted(st, zoneId) ==
    ~isDysonZone(zoneId)

\* processMining visits every zone but the Dyson zone and the depleted ones.
mined(st, zoneId) ==
    /\ ~isDysonZone(zoneId)
    /\ ~st.zones[zoneId].depleted

\* MiningSystem.processMining.
processMining(st, deltaTime, energyThrottle) ==
    LET newState == JsonClone(st)
        minedZones == {z \in DOMAIN newState.zones : mined(newState, z)}
        extraction == [z \in minedZones |->
                          actualExtraction(newState, z, deltaTime,
                                           energyThrottle)]
        slagProduced == [z \in minedZones |->
                            totalMassExtracted(extraction[z]) - extraction[z]]
        minedZone(z) ==
            LET zone == newState.zones[z]
                left == Max(0, zone.metal_remaining - extraction[z])
            IN  [metal_remaining |-> left,
                 mass_remaining |->
                     Max(0, zone.mass_remaining
                              - totalMassExtracted(extraction[z])),
                 slag_produced |-> zone.slag_produced + slagProduced[z],
                 depleted |-> (zone.depleted \/ left <= 0)]
    IN  [newState EXCEPT
            !.zones = [z \in DOMAIN @ |->
                          IF z \in minedZones THEN minedZone(z) ELSE @[z]],
            !.metal = @ + SumFn(extraction),
            !.slag = @ + SumFn(slagProduced)]

\* ProbeSystem.processReplication: progress accrues, whole probes complete.
processReplication(st, zoneId, replicationRate, deltaTime) ==
    LET newProgress == st.construction_progress + replicationRate * deltaTime
    IN  IF newProgress >= PROBE_MASS
        THEN [st EXCEPT !.probes_by_zone[zoneId] =
                            @ + (newProgress \div PROBE_MASS),
                        !.construction_progress = newProgress % PROBE_MASS]
        ELSE [st EXCEPT !.construction_progress = newProgress]

\* ProbeSystem.processProbeOperations for one zone.
processProbeOperations(st, zoneId, deltaTime) ==
    LET newState == JsonClone(st)
        totalProbes == newState.probes_by_zone[zoneId]
        allocations == newState.probe_allocations_by_zone[zoneId]
        buildingRate == calculateBuildingRate(totalProbes,
                                              allocations.construct)
    IN  IF totalProbes = 0 THEN newState
        ELSE IF allocations.replicate > 0
        THEN processReplication(newState, zoneId,
                                (buildingRate * allocations.replicate) \div 100,
                                deltaTime)
        ELSE newState

\* tick(), step 6: processProbeOperations for each zone of probes_by_zone.
RECURSIVE ProbeOperationsLoop(_, _, _)
ProbeOperationsLoop(st, i, deltaTime) ==
    IF i > Len(ZoneOrder) THEN st
    ELSE ProbeOperationsLoop(
            IF ZoneOrder[i] \in DOMAIN st.probes_by_zone
            THEN processProbeOperations(st, ZoneOrder[i], deltaTime) ELSE st,
            i + 1, deltaTime)

\* DysonSystem.processDysonConstruction.
processDysonConstruction(st, deltaTime, energyThrottle) ==
    LET newState == JsonClone(st)
        totalProbes == IF DysonZone \in DOMAIN newState.probes_by_zone
                       THEN newState.probes_by_zone[DysonZone] ELSE 0
        buildingRate ==
            calculateBuildingRate(totalProbes,
                newState.probe_allocations_by_zone[DysonZone].dyson)
        metalNeeded == (buildingRate * energyThrottle * METAL_TO_DYSON_RATIO
                          * deltaTime) \div 100
        metalAvailable == newState.metal
        actualMetalConsumed == Min(metalNeeded, metalAvailable)
        dysonMassAdded == actualMetalConsumed \div METAL_TO_DYSON_RATIO
    IN  IF totalProbes = 0 THEN newState
        ELSE [newState EXCEPT !.dyson_sphere.mass = @ + dysonMassAdded,
                              !.metal = metalAvailable - actualMetalConsumed]

\* calculateUpgradeFactorFromCoefficients('salvage_efficiency', skills), in
\* hundredths: 1.0 when the state carries no skills, else the factor the
\* skills give (a power of a geometric mean, any positive number).
SalvageUpgradeFactor(st) ==
    IF "skills" \in DOMAIN st THEN st.skills.salvage_efficiency ELSE 100

\* A faulty calculateSalvageEfficiency: the fraction is not capped at 1.
calculateSalvageEfficiencyUncapped(upgradeFactor) ==
    (baseRecyclingEfficiency * upgradeFactor) \div 100

\* calculateSalvageEfficiency, in percent: min(1.0, 0.75 * upgradeFactor).
calculateSalvageEfficiency(upgradeFactor) ==
    Min(100, (baseRecyclingEfficiency * upgradeFactor) \div 100)

\* processRecycling's slagRecycled for one zone: what the recycling probes
\* can take in deltaTime, at most the slag there is.
slagRecycled(st, zoneId, deltaTime) ==
    LET totalProbes == IF zoneId \in DOMAIN st.probes_by_zone
                       THEN st.probes_by_zone[zoneId] ELSE 0
        recycleAllocation == IF zoneId \in DOMAIN st.probes_by_zone
                             THEN st.probe_allocations_by_zone[zoneId].recycle
                             ELSE 0
        totalRecycleRate == (baseRecycleRate * totalProbes * recycleAllocation)
                               \div 100
    IN  IF totalProbes = 0 \/ recycleAllocation = 0 THEN 0
        ELSE Min(totalRecycleRate * deltaTime, st.zones[zoneId].slag_produced)

\* RecyclingSystem.processRecycling, one zone: slag turned into metal.
metalProduced(st, zoneId, deltaTime) ==
    LET recycled == slagRecycled(st, zoneId, deltaTime)
    IN  IF recycled <= 0 THEN 0
        ELSE (recycled * calculateSalvageEfficiency(SalvageUpgradeFactor(st)))
                \div 100

\* RecyclingSystem.processRecycling: the slag recycled less the slag that
\* remains of it is the metal produced; it goes to the zone and the pool.
processRecycling(st, deltaTime) ==
    LET newState == JsonClone(st)
        produced == [z \in DOMAIN newState.zones |->
                        metalProduced(newState, z, deltaTime)]
    IN  [newState EXCEPT
            !.zones = [z \in DOMAIN @ |->
                          [@[z] EXCEPT
                              !.slag_produced = Max(0, @ - produced[z]),
                              !.metal_remaining = @ + produced[z]]],
            !.metal = @ + SumFn(produced)]

\* A faulty tick: the throttle is computed again, from the state the probe
\* operations left, for Dyson construction.
engineTickThrottleTwice(st, speed) ==
    LET deltaTime == getDeltaTime(speed)
        clocked == [st EXCEPT !.time = @ + deltaTime, !.tick = @ + 1]
        dysonPower == calculateDysonEnergyProduction(clocked)
        energyBalance == calculateEnergyBalance(clocked, dysonPower.economy)
        energyThrottle == energyBalance.throttle
        afterMining == processMining(clocked, deltaTime, energyThrottle)
        afterProbes == ProbeOperationsLoop(afterMining, 1, deltaTime)
        secondThrottle ==
            calculateEnergyBalance(
                afterProbes,
                calculateDysonEnergyProduction(afterProbes).economy).throttle
        afterDyson == processDysonConstruction(afterProbes, deltaTime,
                                               secondThrottle)
        afterTransfers == processTransfers2(afterDyson)
    IN  processRecycling(afterTransfers, deltaTime)

\* tick(): the clock advances by the time manager's delta, then the
\* subsystems run in their fixed order on the state.  Research and the
\* rates kept for display touch none of the fields kept here, and
\* processStructureConstruction only creates empty progress records.
engineTick(st, speed) ==
    LET deltaTime == getDeltaTime(speed)
        clocked == [st EXCEPT !.time = @ + deltaTime, !.tick = @ + 1]
        dysonPower == calculateDysonEnergyProduction(clocked)
        energyBalance == calculateEnergyBalance(clocked, dysonPower.economy)
        energyThrottle == energyBalance.throttle
        afterMining == processMining(clocked, deltaTime, energyThrottle)
        afterProbes == ProbeOperationsLoop(afterMining, 1, deltaTime)
        afterDyson == processDysonConstruction(afterProbes, deltaTime,
                                               energyThrottle)
        afterTransfers == processTransfers2(afterDyson)
    IN  processRecycling(afterTransfers, deltaTime)

\* ----------------------------------------------------------- E2 actions
E2PerformAction(actionType, actionData) ==
    LET r == performAction(state, timeSpeed, actionType, actionData)
    IN  /\ state' = r.state
        /\ timeSpeed' = r.timeSpeed
        /\ result' = r.result
        /\ UNCHANGED <<t1vars, wvars>>

E2Tick ==
    /\ state.time \in 0 .. MaxTime
    /\ state.tick <= MaxTime
    /\ state' = engineTick(state, timeSpeed)
    /\ result' = "none"
    /\ UNCHANGED <<timeSpeed, t1vars, wvars>>

\* probe_allocations_by_zone[zone], in percent.
Allocations(h, c, r, d, y) ==
    [harvest |-> h, construct |-> c, replicate |-> r, dyson |-> d,
     recycle |-> y]

\* initializeZones: a zone as the registry describes it.
NewZone ==
    [metal_remaining |-> metal_stores_kg, mass_remaining |-> total_mass_kg,
     slag_produced |-> 0, depleted |-> FALSE]

E2Init ==
    /\ state = [time |-> 0,
                tick |-> 0,
                metal |-> 300,
                probes_by_zone |-> [z \in ZoneIds |-> IF z = "earth" THEN 2 ELSE 0],
                structures_by_zone |-> [z \in ZoneIds |-> 0],
                probe_allocations_by_zone |->
                    [z \in ZoneIds |-> Allocations(50, 0, 0, 0, 0)],
                active_transfers |-> <<>>,
                slag |-> 0,
                energy_structures |-> [z \in ZoneIds |-> 0],
                zones |-> [z \in Zones |-> NewZone],
                dyson_sphere |-> [mass |-> 0],
                construction_progress |-> 0]
    /\ timeSpeed = 1

PurchaseCounts == {1, 4}
EngineProbeCounts == {1, 6}
AllocationValues == {150}
SpeedInputs == {-1, 0}

E2Next ==
    \/ E2Tick
    \/ \E s \in BuildingIds \cup {UnknownBuilding}, n \in PurchaseCounts :
          E2PerformAction("purchase_structure",
                          [zone_id |-> "earth", structure_id |-> s, count |-> n])
    \/ \E n \in PurchaseCounts :
          E2PerformAction("purchase_probe", [zone_id |-> "earth", count |-> n])
    \/ \E v \in AllocationValues :
          E2PerformAction("allocate_probes",
                          [zone_id |-> "earth", allocations |-> [harvest |-> v]])
    \/ \E f \in {"earth", UnknownZone}, t \in {"mars", UnknownZone},
          n \in EngineProbeCounts :
          /\ Len(state.active_transfers) < MaxTransfers
          /\ E2PerformAction("create_transfer",
                             [from_zone |-> f, to_zone |-> t, probe_count |-> n])
    \/ \E v \in SpeedInputs :
          E2PerformAction("set_time_speed", [speed |-> v])
    \/ E2PerformAction("warp", [speed |-> 0])

\* ===================================== worker v2 (engine.worker.js)
Engines == 1 .. MaxStarts
UI_UPDATE_INTERVAL == 2
\* Speeds in hundredths: the clamp is to [0.1, 1000].
MinSpeed == 10
MaxSpeed == 100000
DefaultSpeed == 100
WorkerSpeedInputs == {0, 5, 200000}

Post(type) == lastMessage' = type

\* handleInit up to its await: the loader is assigned before loadAll runs.
WHandleInit ==
    /\ dataLoader' = "loading"
    /\ UNCHANGED <<engine, isRunning, tickInterval, uiUpdateCounter, starts,
                   starting, initialized, engineSpeed, timers, lastMessage,
                   stopped, ticksRun, updatesSent>>
    /\ UNCHANGED <<t1vars, result, e2vars>>
    /\ UNCHANGED <<initCompleted, actionRequest, actionReplies>>

\* loadAll() resolves: handleInit resumes and posts initComplete.
WLoadAllResolve ==
    /\ dataLoader = "loading"
    /\ dataLoader' = "loaded"
    /\ Post("initComplete")
    /\ UNCHANGED <<engine, isRunning, tickInterval, uiUpdateCounter, starts,
                   starting, initialized, engineSpeed, timers, stopped,
                   ticksRun, updatesSent>>
    /\ UNCHANGED <<t1vars, result, e2vars>>
    /\ initCompleted' = TRUE
    /\ UNCHANGED <<actionRequest, actionReplies>>

\* loadAll() rejects: handleInit's catch posts an error; dataLoader stays set.
WLoadAllReject ==
    /\ dataLoader = "loading"
    /\ dataLoader' = "failed"
    /\ Post("error")
    /\ UNCHANGED <<engine, isRunning, tickInterval, uiUpdateCounter, starts,
                   starting, initialized, engineSpeed, timers, stopped,
                   ticksRun, updatesSent>>
    /\ UNCHANGED <<t1vars, result, e2vars>>
    /\ UNCHANGED <<initCompleted, actionRequest, actionReplies>>

\* handleStart up to its await: without a data loader it throws into its
\* catch; otherwise it constructs the engine, assigns the global and
\* suspends at await engine.initialize().
WHandleStart ==
    /\ starts < MaxStarts
    /\ stopped' = FALSE
    /\ IF dataLoader = "null"
       THEN /\ Post("error")
            /\ UNCHANGED <<engine, starts, starting>>
       ELSE /\ engine' = starts + 1
            /\ starts' = starts + 1
            /\ starting' = starting \cup {starts + 1}
            /\ UNCHANGED lastMessage
    /\ UNCHANGED <<isRunning, tickInterval, uiUpdateCounter, dataLoader,
                   initialized, engineSpeed, timers, ticksRun, updatesSent>>
    /\ UNCHANGED <<t1vars, result, e2vars>>
    /\ UNCHANGED <<initCompleted, actionRequest, actionReplies>>

\* initialize() of engine e resolves and handleStart resumes: isRunning and
\* the counter are set, a new interval is stored in tickInterval (whatever
\* it held), startComplete is posted.
WInitializeResolve(e) ==
    /\ e \in starting
    /\ starting' = starting \ {e}
    /\ initialized' = [initialized EXCEPT ![e] = TRUE]
    /\ isRunning' = TRUE
    /\ uiUpdateCounter' = 0
    /\ tickInterval' = e
    /\ timers' = timers \cup {e}
    /\ Post("startComplete")
    /\ UNCHANGED <<engine, dataLoader, starts, engineSpeed, stopped, ticksRun,
                   updatesSent>>
    /\ UNCHANGED <<t1vars, result, e2vars>>
    /\ UNCHANGED <<initCompleted, actionRequest, actionReplies>>

\* initialize() of engine e rejects: handleStart's catch posts an error.
WInitializeReject(e) ==
    /\ e \in starting
    /\ starting' = starting \ {e}
    /\ Post("error")
    /\ UNCHANGED <<engine, isRunning, tickInterval, uiUpdateCounter,
                   dataLoader, starts, initialized, engineSpeed, timers,
                   stopped, ticksRun, updatesSent>>
    /\ UNCHANGED <<t1vars, result, e2vars>>
    /\ UNCHANGED <<initCompleted, actionRequest, actionReplies>>

\* handleStop: isRunning off, the interval in tickInterval cleared, a final
\* stateUpdate when there is an engine, then stopComplete.
WHandleStop ==
    /\ isRunning' = FALSE
    /\ timers' = IF tickInterval # 0 THEN timers \ {tickInterval} ELSE timers
    /\ tickInterval' = 0
    /\ Post("stopComplete")
    /\ stopped' = TRUE
    /\ UNCHANGED <<engine, uiUpdateCounter, dataLoader, starts, starting,
                   initialized, engineSpeed, ticksRun, updatesSent>>
    /\ UNCHANGED <<t1vars, result, e2vars>>
    /\ UNCHANGED <<initCompleted, actionRequest, actionReplies>>

\* handleAction: actionError without an engine, else the action's reply.
WHandleAction ==
    /\ Post(IF engine = 0 THEN "actionError" ELSE "actionComplete")
    /\ UNCHANGED <<engine, isRunning, tickInterval, uiUpdateCounter,
                   dataLoader, starts, starting, initialized, engineSpeed,
                   timers, stopped, ticksRun, updatesSent>>
    /\ UNCHANGED <<t1vars, result, e2vars>>
    /\ UNCHANGED <<initCompleted, actionRequest, actionReplies>>

\* handleGetState: a stateUpdate, of null without an engine.
WHandleGetState ==
    /\ Post("stateUpdate")
    /\ UNCHANGED <<engine, isRunning, tickInterval, uiUpdateCounter,
                   dataLoader, starts, starting, initialized, engineSpeed,
                   timers, stopped, ticksRun, updatesSent>>
    /\ UNCHANGED <<t1vars, result, e2vars>>
    /\ UNCHANGED <<initCompleted, actionRequest, actionReplies>>

\* The setTimeSpeed message: ignored without an engine, else the speed
\* (1 when falsy) clamped to [0.1, 1000].
WSetTimeSpeed(speed) ==
    /\ engineSpeed' =
          IF engine = 0 THEN engineSpeed
          ELSE [engineSpeed EXCEPT ![engine] =
                   Max(MinSpeed, Min(MaxSpeed,
                       IF speed = 0 THEN DefaultSpeed ELSE speed))]
    /\ UNCHANGED <<engine, isRunning, tickInterval, uiUpdateCounter,
                   dataLoader, starts, starting, initialized, timers,
                   lastMessage, stopped, ticksRun, updatesSent>>
    /\ UNCHANGED <<t1vars, result, e2vars>>
    /\ UNCHANGED <<initCompleted, actionRequest, actionReplies>>

\* An interval fires and runs tick(): nothing unless isRunning and engine;
\* engine.tick() runs the engine's tick when it is initialized; every
\* UI_UPDATE_INTERVAL-th call posts a stateUpdate.
WTimerFire(t) ==
    /\ t \in timers
    /\ ticksRun < MaxTicks
    /\ updatesSent < MaxTicks
    /\ IF ~isRunning \/ engine = 0
       THEN UNCHANGED <<uiUpdateCounter, lastMessage, ticksRun, updatesSent>>
       ELSE /\ ticksRun' = IF initialized[engine] THEN ticksRun + 1 ELSE ticksRun
            /\ IF uiUpdateCounter + 1 >= UI_UPDATE_INTERVAL
               THEN /\ uiUpdateCounter' = 0
                    /\ Post("stateUpdate")
                    /\ updatesSent' = updatesSent + 1
               ELSE /\ uiUpdateCounter' = uiUpdateCounter + 1
                    /\ UNCHANGED <<lastMessage, updatesSent>>
    /\ UNCHANGED <<engine, isRunning, tickInterval, dataLoader, starts,
                   starting, initialized, engineSpeed, timers, stopped>>
    /\ UNCHANGED <<t1vars, result, e2vars>>
    /\ UNCHANGED <<initCompleted, actionRequest, actionReplies>>

WInit ==
    /\ engine = 0
    /\ isRunning = FALSE
    /\ tickInterval = 0
    /\ uiUpdateCounter = 0
    /\ dataLoader = "null"
    /\ starts = 0
    /\ starting = {}
    /\ initialized = [e \in Engines |-> FALSE]
    /\ engineSpeed = [e \in Engines |-> DefaultSpeed]
    /\ timers = {}
    /\ lastMessage = "none"
    /\ stopped = FALSE
    /\ ticksRun = 0
    /\ updatesSent = 0
    /\ initCompleted = FALSE
    /\ actionRequest = 0
    /\ actionReplies = <<>>

WNext ==
    \/ WHandleInit
    \/ WLoadAllResolve
    \/ WLoadAllReject
    \/ WHandleStart
    \/ \E e \in Engines : WInitializeResolve(e)
    \/ \E e \in Engines : WInitializeReject(e)
    \/ WHandleStop
    \/ WHandleAction
    \/ WHandleGetState
    \/ \E v \in WorkerSpeedInputs : WSetTimeSpeed(v)
    \/ \E t \in Engines : WTimerFire(t)

\* ------------------------------------- handleAction on the engine's state
\* A message whose actionData is missing: reading a field of it throws.
UndefinedData == [undefined |-> TRUE]
ActionIds == {7, 8}

\* performAction throws (a TypeError) when it reads a field of a missing
\* payload; the default case of its switch reads none.
performActionThrows(actionType, actionData) ==
    /\ actionData = UndefinedData
    /\ actionType \in {"purchase_structure", "purchase_probe",
                       "allocate_probes", "create_transfer", "set_time_speed"}

\* A faulty handleAction: without the engine guard, the action is applied
\* and answered as if an engine existed.
handleActionWithoutGuard(eng, st, speed, actionId, actionType, actionData) ==
    LET r == performAction(st, speed, actionType, actionData)
    IN  [state |-> r.state, timeSpeed |-> r.timeSpeed,
         replies |-> <<[type |-> "actionComplete", actionId |-> actionId,
                        result |-> r.result, gameState |-> r.state]>>]

\* handleAction: the state and speed it leaves and the messages it posts.
\* Without an engine: actionError, nothing else. Otherwise performAction
\* and getState run inside try; a throw is answered by the catch with
\* actionError, a return with actionComplete carrying result and snapshot.
handleAction(eng, st, speed, actionId, actionType, actionData) ==
    IF eng = 0
    THEN [state |-> st, timeSpeed |-> speed,
          replies |-> <<[type |-> "actionError", actionId |-> actionId,
                         result |-> "Engine not initialized",
                         gameState |-> JsonClone(st)]>>]
    ELSE IF performActionThrows(actionType, actionData)
    THEN [state |-> st, timeSpeed |-> speed,
          replies |-> <<[type |-> "actionError", actionId |-> actionId,
                         result |-> "TypeError",
                         gameState |-> JsonClone(st)]>>]
    ELSE LET r == performAction(st, speed, actionType, actionData)
         IN  [state |-> r.state, timeSpeed |-> r.timeSpeed,
              replies |-> <<[type |-> "actionComplete", actionId |-> actionId,
                             result |-> r.result,
                             gameState |-> JsonClone(r.state)]>>]

WAHandleAction(actionId, actionType, actionData) ==
    LET h == handleAction(engine, state, timeSpeed, actionId, actionType,
                          actionData)
    IN  /\ state' = h.state
        /\ timeSpeed' = h.timeSpeed
        /\ actionRequest' = actionId
        /\ actionReplies' = h.replies
        /\ Post(h.replies[Len(h.replies)].type)
        /\ result' = h.replies[Len(h.replies)].result
        /\ UNCHANGED <<engine, isRunning, tickInterval, uiUpdateCounter,
                       dataLoader, starts, starting, initialized, engineSpeed,
                       timers, stopped, ticksRun, updatesSent, initCompleted>>
        /\ UNCHANGED t1vars

WANext ==
    \/ WHandleInit
    \/ WLoadAllResolve
    \/ WLoadAllReject
    \/ WHandleStart
    \/ \E e \in Engines : WInitializeResolve(e)
    \/ \E e \in Engines : WInitializeReject(e)
    \/ \E i \in ActionIds, n \in PurchaseCounts :
          WAHandleAction(i, "purchase_probe",
                         [zone_id |-> "earth", count |-> n])
    \/ \E i \in ActionIds, v \in SpeedInputs :
          WAHandleAction(i, "set_time_speed", [speed |-> v])
    \/ \E i \in ActionIds, a \in {"set_time_speed", "warp"} :
          WAHandleAction(i, a, UndefinedData)

\* ========================================================= specifications
T1Init ==
    /\ \E d \in DerivedRates : T1InitWith(d)
    /\ result = "none" /\ E2Init /\ WInit

Init == T1InitWith(NoDerivedRates) /\ result = "none" /\ E2Init /\ WInit

Idle == UNCHANGED <<result, e2vars, wvars>>

T1Next ==
    \/ \E dt \in DeltaTimes : T1Tick(dt) /\ Idle
    \/ \E f \in ZoneIds, t \in ZoneIds, n \in ProbeCounts :
          T1CreateTransfer(f, t, "probe", n, "one-time", 0) /\ Idle
    \/ \E f \in ZoneIds, t \in ZoneIds, m \in MetalAmounts :
          T1CreateTransfer(f, t, "metal", m, "one-time", 0) /\ Idle
    \/ \E f \in ZoneIds, t \in ZoneIds, r \in {"probe", "metal"},
          p \in RatePercentages :
          T1CreateTransfer(f, t, r, 0, "continuous", p) /\ Idle
    \/ \E id \in TransferIds, p \in BOOLEAN : T1PauseTransfer(id, p) /\ Idle
    \/ \E id \in TransferIds, p \in NewRates :
          T1UpdateTransferRate(id, p) /\ Idle
    \/ \E id \in TransferIds : T1DeleteTransfer(id) /\ Idle

SpecT1 == T1Init /\ [][T1Next]_vars

\* The same API with the result of each call kept in result.
Returned(r) == result' = r /\ UNCHANGED <<e2vars, wvars>>

T1ApiNext ==
    \/ \E dt \in DeltaTimes : T1Tick(dt) /\ Returned("none")
    \/ \E f \in ZoneIds, t \in ZoneIds, n \in ProbeCounts :
          /\ T1CreateTransfer(f, t, "probe", n, "one-time", 0)
          /\ Returned(EngineCreateError(f, t, "probe", n, "one-time", 0))
    \/ \E f \in ZoneIds, t \in ZoneIds, m \in MetalAmounts :
          /\ T1CreateTransfer(f, t, "metal", m, "one-time", 0)
          /\ Returned(EngineCreateError(f, t, "metal", m, "one-time", 0))
    \/ \E f \in ZoneIds, t \in ZoneIds, r \in {"probe", "metal"},
          p \in RatePercentages :
          /\ T1CreateTransfer(f, t, r, 0, "continuous", p)
          /\ Returned(EngineCreateError(f, t, r, 0, "continuous", p))
    \/ \E id \in TransferIds, p \in BOOLEAN :
          T1PauseTransfer(id, p) /\ Returned("none")
    \/ \E id \in TransferIds : T1DeleteTransfer(id) /\ Returned("none")

SpecT1Api == T1Init /\ [][T1ApiNext]_vars

SpecE2 == Init /\ [][E2Next]_vars

SpecW == Init /\ [][WNext]_vars

SpecWA == Init /\ [][WANext]_vars

\* ============================== the production tick (engine_v2/engine.js)
\* A new game: createInitialGameState, initializeZones and initializeProbes,
\* with or without one energy structure at earth.
AllZoneIds == ZoneIds \cup {DysonZone}
MaxProbes == 1
initial_metal == 1000
initial_probes == 1

MInit ==
    /\ \E n \in {0, 1} :
          state = [time |-> 0,
                   tick |-> 0,
                   metal |-> initial_metal,
                   probes_by_zone |->
                       [z \in AllZoneIds |->
                           IF z = "earth" THEN initial_probes ELSE 0],
                   structures_by_zone |-> [z \in AllZoneIds |-> 0],
                   probe_allocations_by_zone |->
                       [z \in AllZoneIds |->
                           IF isDysonZone(z) THEN Allocations(0, 0, 0, 100, 0)
                           ELSE Allocations(50, 30, 20, 0, 0)],
                   active_transfers |-> <<>>,
                   slag |-> 0,
                   energy_structures |->
                       [z \in AllZoneIds |-> IF z = "earth" THEN n ELSE 0],
                   zones |-> [z \in Zones \cup {DysonZone} |-> NewZone],
                   dyson_sphere |-> [mass |-> 0],
                   construction_progress |-> 0]
    /\ timeSpeed = 1
    /\ result = "none"
    /\ T1InitWith(NoDerivedRates)
    /\ WInit

\* The allocations the player sends for earth.
AllocationPresets ==
    {Allocations(0, 0, 0, 0, 0), Allocations(100, 0, 0, 0, 100),
     Allocations(0, 100, 100, 0, 0)}
ProbeCountPayloads == {1, -1}
ReverseSpeeds == {-1}

\* One tick of the running engine.
MTick ==
    /\ state.tick < MaxTicks
    /\ state' = engineTick(state, timeSpeed)
    /\ result' = "none"
    /\ UNCHANGED <<timeSpeed, t1vars, wvars>>

MNext ==
    \/ MTick
    \/ \E n \in ProbeCountPayloads :
          /\ Abs(state.probes_by_zone["earth"] + n) <= MaxProbes
          /\ E2PerformAction("purchase_probe",
                             [zone_id |-> "earth", count |-> n])
    \/ /\ state.probes_by_zone[DysonZone] < MaxProbes
       /\ E2PerformAction("purchase_probe", [zone_id |-> DysonZone, count |-> 1])
    \/ \E a \in AllocationPresets :
          E2PerformAction("allocate_probes",
                          [zone_id |-> "earth", allocations |-> a])
    \/ \E v \in ReverseSpeeds :
          E2PerformAction("set_time_speed", [speed |-> v])

SpecM == MInit /\ [][MNext]_vars

\* The production tick with the metal spent on structures (SpecN): the
\* player buys mass drivers at earth, one or four at a time, buys a probe,
\* and sets the speed of the ticks.
NNext ==
    \/ MTick
    \/ \E n \in PurchaseCounts :
          E2PerformAction("purchase_structure",
                          [zone_id |-> "earth", structure_id |-> "mass_driver",
                           count |-> n])
    \/ /\ state.probes_by_zone["earth"] <= MaxProbes
       /\ E2PerformAction("purchase_probe", [zone_id |-> "earth", count |-> 1])
    \/ \E v \in ReverseSpeeds :
          E2PerformAction("set_time_speed", [speed |-> v])

SpecN == MInit /\ [][NNext]_vars

\* The production tick with probes replicating in two zones (SpecQ): the
\* player sets the allocations of earth and of mars, to replicate with
\* half of the building time or not at all, and buys a probe for mars.
ReplicationPresets ==
    {Allocations(0, 100, 50, 0, 0), Allocations(0, 0, 0, 0, 0)}

QNext ==
    \/ MTick
    \/ \E z \in Zones, a \in ReplicationPresets :
          E2PerformAction("allocate_probes",
                          [zone_id |-> z, allocations |-> a])
    \/ /\ state.probes_by_zone["mars"] < MaxProbes
       /\ E2PerformAction("purchase_probe", [zone_id |-> "mars", count |-> 1])

SpecQ == MInit /\ [][QNext]_vars

\* ==================== concurrent continuous transfers (v1 TransferSystem)
\* Several continuous transfers leave earth at once: earth starts with more
\* metal than one mass driver can launch in a day and has no driver yet.
PairIds == 1 .. MaxTransfers + 1
MaxDrivers == 1

\* The rate update of the last tick left either no rate for earth or the
\* rate of two replicating probes.
T2DerivedRates == {NoDerivedRates,
                   [z \in Zones |-> IF z = "earth" THEN 2 ELSE Undefined]}

T2Init ==
    /\ time = 0
    /\ probes_by_zone = [z \in Zones |-> IF z = "earth" THEN 2 ELSE 0]
    /\ stored_metal = [z \in Zones |-> IF z = "earth" THEN 1500 ELSE 0]
    /\ structures_by_zone = [z \in Zones |-> 0]
    /\ derived \in T2DerivedRates
    /\ active_transfers = <<>>
    /\ continuousAccumulators = [id \in PairIds |-> 0]
    /\ nextTransferId = 1
    /\ ledger = [id \in PairIds |-> ZeroLedger]
    /\ result = "none" /\ E2Init /\ WInit

\* The engine completes a mass driver at earth.
T2BuildMassDriver ==
    /\ structures_by_zone["earth"] < MaxDrivers
    /\ structures_by_zone' = [structures_by_zone EXCEPT !["earth"] = @ + 1]
    /\ UNCHANGED <<time, probes_by_zone, stored_metal, derived,
                   active_transfers, continuousAccumulators, nextTransferId,
                   ledger>>

T2Next ==
    \/ T1Tick(1) /\ Idle
    \/ \E r \in {"probe", "metal"}, p \in RatePercentages :
          /\ nextTransferId \in PairIds
          /\ CreateTransferStep("earth", "mars", r, 0, "continuous", p)
          /\ Idle
    \/ \E id \in PairIds : T1PauseTransfer(id, TRUE) /\ Idle
    \/ T2BuildMassDriver /\ Idle

SpecT2 == T2Init /\ [][T2Next]_vars

\* The same transfers with more metal stored at earth: each transfer's share
\* of the stock is as much as one mass driver launches in a day.
T3Init ==
    /\ time = 0
    /\ probes_by_zone = [z \in Zones |-> IF z = "earth" THEN 2 ELSE 0]
    /\ stored_metal = [z \in Zones |-> IF z = "earth" THEN 2000 ELSE 0]
    /\ structures_by_zone = [z \in Zones |-> 0]
    /\ derived \in T2DerivedRates
    /\ active_transfers = <<>>
    /\ continuousAccumulators = [id \in PairIds |-> 0]
    /\ nextTransferId = 1
    /\ ledger = [id \in PairIds |-> ZeroLedger]
    /\ result = "none" /\ E2Init /\ WInit

\* The transfers of SpecT2, and a paused transfer may be resumed.
T3Next ==
    \/ T2Next
    \/ \E id \in PairIds : T1PauseTransfer(id, FALSE) /\ Idle

SpecT3 == T3Init /\ [][T3Next]_vars

\* ======================= v2 probe transfers side by side (SpecP)
\* The v2 engine with ticks and create_transfer actions only: no purchase,
\* and the initial allocations replicate nothing.
TransferCounts == {1, 2}

\* Days the engine runs for: long enough for a transfer between earth and
\* mars to arrive.
MaxPassDays == 4

PTick ==
    /\ state.time < MaxPassDays
    /\ state' = engineTick(state, timeSpeed)
    /\ result' = "none"
    /\ UNCHANGED <<timeSpeed, t1vars, wvars>>

PNext ==
    \/ PTick
    \/ \E f \in Zones, t \in Zones, n \in TransferCounts :
          /\ Len(state.active_transfers) < MaxTransfers + 1
          /\ E2PerformAction("create_transfer",
                             [from_zone |-> f, to_zone |-> t, probe_count |-> n])

SpecP == Init /\ [][PNext]_vars

\* ================================ starting from a prior state (SpecI)
\* config.default_zone || 'earth'.
defaultZoneId == "earth"

\* initializeZones: a registry zone the state has no record of gets one.
initializeZones(st) ==
    [st EXCEPT !.zones =
        [z \in (DOMAIN st.zones) \cup Zones |->
            IF z \in DOMAIN st.zones THEN st.zones[z] ELSE NewZone]]

\* initializeProbes: `!probesByZone[defaultZoneId]['probe']` is true of a
\* missing count and of a count of 0 alike; a registry zone without
\* allocations gets the defaults of a zone that is not the Dyson zone.
initializeProbes(st) ==
    LET probesByZone == st.probes_by_zone
        allocs == st.probe_allocations_by_zone
        seeded ==
            [z \in (DOMAIN probesByZone) \cup {defaultZoneId} |->
                IF z = defaultZoneId
                THEN IF z \notin DOMAIN probesByZone THEN initial_probes
                     ELSE IF probesByZone[z] = 0 THEN initial_probes
                     ELSE probesByZone[z]
                ELSE probesByZone[z]]
        allocated ==
            [z \in (DOMAIN allocs) \cup Zones |->
                IF z \in DOMAIN allocs THEN allocs[z]
                ELSE Allocations(50, 30, 20, 0, 0)]
    IN  [st EXCEPT !.probes_by_zone = seeded,
                   !.probe_allocations_by_zone = allocated]

\* initialize(): the zones, then the probes.
initialize(st) == initializeProbes(initializeZones(st))

\* handleStart with data.initialState: a new engine is built on the state
\* the previous one has reached, and initialized.
IStart ==
    /\ state' = initialize(state)
    /\ result' = "none"
    /\ UNCHANGED <<timeSpeed, t1vars, wvars>>

INext ==
    \/ PNext
    \/ IStart

SpecI == Init /\ [][INext]_vars

\* ================================ recycling under research (SpecS)
\* The salvage upgrade factors the skills may give, in hundredths: none,
\* some, and more than 4/3.
MaxUpgradeSteps == 2
UpgradeFactorAt(level) == 100 + 20 * level

SInit ==
    /\ state = [time |-> 0,
                tick |-> 0,
                metal |-> initial_metal,
                probes_by_zone |->
                    [z \in AllZoneIds |->
                        IF z = "earth" THEN initial_probes ELSE 0],
                structures_by_zone |-> [z \in AllZoneIds |-> 0],
                probe_allocations_by_zone |->
                    [z \in AllZoneIds |-> Allocations(100, 0, 0, 0, 100)],
                active_transfers |-> <<>>,
                slag |-> 0,
                energy_structures |->
                    [z \in AllZoneIds |-> IF z = "earth" THEN 1 ELSE 0],
                zones |-> [z \in Zones \cup {DysonZone} |-> NewZone],
                dyson_sphere |-> [mass |-> 0],
                construction_progress |-> 0,
                skills |-> [salvage_efficiency |-> UpgradeFactorAt(0),
                            level |-> 0]]
    /\ timeSpeed = 1
    /\ result = "none"
    /\ T1InitWith(NoDerivedRates)
    /\ WInit

\* One tick of the running engine.
STick ==
    /\ state.tick < MaxTicks
    /\ state' = engineTick(state, timeSpeed)
    /\ result' = "none"
    /\ UNCHANGED <<timeSpeed, t1vars, wvars>>

\* Research completes: the skills, and with them the salvage upgrade
\* factor, grow.
SResearch ==
    /\ state.skills.level < MaxUpgradeSteps
    /\ state' = [state EXCEPT
                    !.skills = [salvage_efficiency |->
                                    UpgradeFactorAt(state.skills.level + 1),
                                level |-> state.skills.level + 1]]
    /\ UNCHANGED <<timeSpeed, result, t1vars, wvars>>

SNext ==
    \/ STick
    \/ SResearch
    \/ \E a \in AllocationPresets :
          E2PerformAction("allocate_probes",
                          [zone_id |-> "earth", allocations |-> a])
    \/ \E z \in {"earth", "mars"} :
          /\ state.probes_by_zone[z] < MaxProbes + 1
          /\ E2PerformAction("purchase_probe", [zone_id |-> z, count |-> 1])

SpecS == SInit /\ [][SNext]_vars

\* ======================= research compounding (PROBES_AND_SKILLS.md)
\* One research tier: 0.02 per tranche, 10 tranches.  Bonuses are kept in
\* millionths, principals in hundredths, time in whole days.
MaxResearchDays == 10
bonus_per_tranche == 2
total_tranches == 10

\* e^(0.20 x t) for whole days t, in millionths.
CompoundingTable ==
    <<1000000, 1221403, 1491825, 1822119, 2225541, 2718282, 3320117, 4055200, 4953032, 6049647, 7389056, 9025013, 11023176>>
Compounding(t) == CompoundingTable[t + 1]

\* Bonus = principal x e^(0.20 x days): while researching the days count
\* from the start of the research, once completed from the completion.
tierBonus(tier, now) ==
    (tier.principal * Compounding(now - tier.since)) \div 100

\* A faulty completion: the principal doubles but the compounding goes on
\* from the start of the research.
completeTierKeepsClock(tier, now) ==
    [tier EXCEPT !.completed = TRUE,
                 !.principal = 2 * bonus_per_tranche * total_tranches]

\* On tier completion the principal doubles and the compounding continues
\* from the completion time.
completeTier(tier, now) ==
    [tier EXCEPT !.completed = TRUE,
                 !.principal = 2 * bonus_per_tranche * total_tranches,
                 !.since = now]

\* A tranche completes: the base bonus grows by the tranche's share, and
\* the last tranche completes the tier.
completeTranche(tier, now) ==
    LET done == tier.tranches_completed + 1
        grown == [tier EXCEPT !.tranches_completed = done,
                              !.principal = bonus_per_tranche * done]
    IN  IF done = total_tranches THEN completeTier(grown, now) ELSE grown

RInit ==
    /\ state = [time |-> 0,
                tier |-> [tranches_completed |-> 0, completed |-> FALSE,
                          principal |-> 0, since |-> 0],
                bonus |-> 0]
    /\ timeSpeed = 1
    /\ result = "none"
    /\ T1InitWith(NoDerivedRates)
    /\ WInit

\* A day passes and the skills are recomputed from the research.
RTick ==
    /\ state.time < MaxResearchDays
    /\ state' = [state EXCEPT !.time = @ + 1,
                              !.bonus = tierBonus(state.tier, state.time + 1)]
    /\ UNCHANGED <<timeSpeed, result, t1vars, wvars>>

\* The research invested completes the next tranche of the tier.
RCompleteTranche ==
    /\ ~state.tier.completed
    /\ LET tier == completeTranche(state.tier, state.time)
       IN  state' = [state EXCEPT !.tier = tier,
                                  !.bonus = tierBonus(tier, state.time)]
    /\ UNCHANGED <<timeSpeed, result, t1vars, wvars>>

RNext == RTick \/ RCompleteTranche

SpecR == RInit /\ [][RNext]_vars

\* ================================================================= claims
ActiveIds(transfers) == {transfers[i].id : i \in 1 .. Len(transfers)}
TransferById(transfers, id) == transfers[IndexOfTransfer(transfers, id)]

\* C1: transfer conservation.  For every continuous transfer in
\* active_transfers, what it has debited from its source zone equals what
\* is still in its in_transit queue plus what it has credited to the
\* destination, in every state (so at the end of every transfer pass).
C1_TransferConservation ==
    \A i \in 1 .. Len(active_transfers) :
        LET t == active_transfers[i]
        IN  t.type = "continuous" =>
                ledger[t.id].debited
                    = InTransitTotal(t.in_transit) + ledger[t.id].credited

\* C1's case: a continuous transfer that has both delivered cargo and still
\* has a batch under way.
C1_Witness ==
    \E i \in 1 .. Len(active_transfers) :
        LET t == active_transfers[i]
        IN  /\ t.type = "continuous"
            /\ ledger[t.id].credited > 0
            /\ t.in_transit # <<>>

\* C2: a create_transfer that succeeds has debited the source zone by the
\* transferred quantity when it returns, and one that asks for more than
\* the source holds fails and changes nothing.
C2_DebitAtCreation ==
    [][/\ (result' = "ok"
            /\ Len(state'.active_transfers) = Len(state.active_transfers) + 1)
          => LET t == state'.active_transfers[Len(state'.active_transfers)]
             IN  state'.probes_by_zone[t.from_zone]
                    = state.probes_by_zone[t.from_zone] - t.probe_count
       /\ result' = "Insufficient probes" => state' = state]_vars

\* C3: deleting an active transfer gives back to its source zone exactly
\* the cargo it has debited and not yet credited, and removes the transfer;
\* what has been credited stays at the destination.
C3_DeleteReturnsCargo ==
    [][\A id \in TransferIds :
          (/\ time' = time
           /\ id \in ActiveIds(active_transfers)
           /\ id \notin ActiveIds(active_transfers'))
          => LET t == TransferById(active_transfers, id)
                 owed == ledger[id].debited - ledger[id].credited
             IN  /\ probes_by_zone' =
                      IF t.resource_type = "probe"
                      THEN [probes_by_zone EXCEPT ![t.from_zone] = @ + owed]
                      ELSE probes_by_zone
                 /\ stored_metal' =
                      IF t.resource_type = "metal"
                      THEN [stored_metal EXCEPT ![t.from_zone] = @ + owed]
                      ELSE stored_metal]_vars

\* C4: in a transfer pass, a paused continuous transfer dispatches no new
\* batch and debits nothing, while each of its queued batches that is due
\* leaves the queue and is credited; a paused one-time transfer stays
\* active and is not credited; and a pause or unpause step moves no cargo.
C4_PausedPass ==
    \A id \in ActiveIds(active_transfers) :
        LET t == TransferById(active_transfers, id)
        IN  /\ (t.type = "continuous" /\ t.paused) =>
                /\ id \in ActiveIds(active_transfers')
                /\ LET u == TransferById(active_transfers', id)
                   IN  /\ ledger'[id].debited = ledger[id].debited
                       /\ \A k \in 1 .. Len(u.in_transit) :
                             /\ u.in_transit[k].arrival_time > time'
                             /\ \E j \in 1 .. Len(t.in_transit) :
                                   t.in_transit[j] = u.in_transit[k]
                       /\ \A j \in 1 .. Len(t.in_transit) :
                             t.in_transit[j].arrival_time > time'
                             => \E k \in 1 .. Len(u.in_transit) :
                                   u.in_transit[k] = t.in_transit[j]
                       /\ ledger'[id].credited - ledger[id].credited
                             = InTransitTotal(t.in_transit)
                               - InTransitTotal(u.in_transit)
            /\ (t.type = "one-time" /\ t.status = "paused") =>
                /\ id \in ActiveIds(active_transfers')
                /\ TransferById(active_transfers', id) = t
                /\ ledger'[id] = ledger[id]
                /\ LET others == ActiveIds(active_transfers) \ {id}
                       credit(r) == SumFn([o \in
                           {o \in others :
                               /\ TransferById(active_transfers, o).to_zone
                                     = t.to_zone
                               /\ TransferById(active_transfers, o)
                                     .resource_type = r}
                           |-> ledger'[o].credited - ledger[o].credited])
                       debit(r) == SumFn([o \in
                           {o \in others :
                               /\ TransferById(active_transfers, o).from_zone
                                     = t.to_zone
                               /\ TransferById(active_transfers, o)
                                     .resource_type = r}
                           |-> ledger'[o].debited - ledger[o].debited])
                   IN  /\ probes_by_zone'[t.to_zone]
                             = probes_by_zone[t.to_zone]
                               + credit("probe") - debit("probe")
                       /\ stored_metal'[t.to_zone]
                             = stored_metal[t.to_zone]
                               + credit("metal") - debit("metal")

C4_PauseStep ==
    \A id \in ActiveIds(active_transfers) \cap ActiveIds(active_transfers') :
        LET t == TransferById(active_transfers, id)
            u == TransferById(active_transfers', id)
        IN  (t.paused # u.paused
             \/ (t.status # u.status /\ "paused" \in {t.status, u.status}))
            => /\ probes_by_zone' = probes_by_zone
               /\ stored_metal' = stored_metal
               /\ ledger' = ledger
               /\ u.in_transit = t.in_transit
               /\ u.amount = t.amount

\* C4: every tick satisfies the paused-pass property and every pause or
\* unpause step moves no cargo.
C4_PauseSemantics ==
    [][/\ time' # time => C4_PausedPass
       /\ time' = time => C4_PauseStep]_vars

\* C4's case: a continuous transfer that is paused and has had cargo
\* credited in passes that found it paused.
C4_Witness ==
    \E i \in 1 .. Len(active_transfers) :
        LET t == active_transfers[i]
        IN  /\ t.type = "continuous"
            /\ t.paused
            /\ ledger[t.id].credited_paused > 0

\* C5: whenever performAction returns success = false, for any action
\* type, the engine's state and speed are what they were before the call.
C5_FailureLeavesStateUnchanged ==
    [][result' \notin {"none", "ok"}
          => (state' = state /\ timeSpeed' = timeSpeed)]_vars

\* C5's case: an action has just been refused by an engine that already
\* holds purchases or transfers made earlier.
C5_Witness ==
    /\ result \in {"Building not found", "Insufficient metal",
                   "Insufficient probes", "Unknown action type"}
    /\ state.metal < 300
    /\ state.tick > 0

\* C6: a metal transfer, one-time or continuous, asked from a zone without
\* a mass driver is refused; the refusal changes nothing; and no active
\* metal transfer ever leaves from such a zone.
C6_MetalNeedsMassDriver ==
    /\ [](\A f \in Zones, t \in ZoneIds, m \in MetalAmounts \cup {0},
             ty \in {"one-time", "continuous"}, p \in RatePercentages \cup {0} :
             structures_by_zone[f] = 0
             => EngineCreateError(f, t, "metal", m, ty, p) # "ok")
    /\ [](\A i \in 1 .. Len(active_transfers) :
             active_transfers[i].resource_type = "metal"
             => structures_by_zone[active_transfers[i].from_zone] > 0)
    /\ [][result' = "Mass driver required for metal transfers"
             => UNCHANGED t1vars]_vars

\* C6's case: a metal transfer has just been refused for want of a mass
\* driver, while the zone did hold metal to send.
C6_Witness ==
    /\ result = "Mass driver required for metal transfers"
    /\ \E z \in Zones : structures_by_zone[z] = 0 /\ stored_metal[z] > 0

\* C7: no active transfer has a non-finite arrival time (a create_transfer
\* naming an unknown zone, or with a non-finite duration, adds nothing).
C7_FiniteArrivalTimes ==
    /\ \A i \in 1 .. Len(state.active_transfers) :
          state.active_transfers[i].arrival_time \notin {Infinity, Null}
    /\ \A i \in 1 .. Len(state.active_transfers) :
          /\ state.active_transfers[i].from_zone \in Zones
          /\ state.active_transfers[i].to_zone \in Zones

\* C8: the snapshot determines the future.  An engine rebuilt from the
\* snapshot starts with an empty accumulator Map; its next transfer pass
\* must give the snapshot the running engine's next pass gives.
Snapshot(st) == <<st.probes, st.metal, st.transfers>>

C8_SnapshotDeterminesNextPass ==
    \A dt \in DeltaTimes :
        Snapshot(processTransfers(
                    PassState(probes_by_zone, stored_metal, active_transfers,
                              continuousAccumulators, ledger),
                    dt, time + dt))
        = Snapshot(processTransfers(
                    PassState(probes_by_zone, stored_metal, active_transfers,
                              [id \in TransferIds |-> 0], ledger),
                    dt, time + dt))

\* C9: once a stop has been handled and no start message has arrived
\* since, no engine tick runs and tick() posts no stateUpdate.
C9_NoTickAfterStop ==
    [][(stopped /\ stopped')
          => (ticksRun' = ticksRun /\ updatesSent' = updatesSent)]_vars

\* C10: at most one interval timer is live at any time, and none is live
\* once a stop has been handled.
C10_AtMostOneTimer ==
    /\ Cardinality(timers) <= 1
    /\ (tickInterval = 0 /\ starting = {}) => timers = {}

\* C11: an engine exists, and a tick timer is set, only when an init has
\* completed successfully before; a start without one leaves the worker
\* without engine and without timer.
C11_StartNeedsInit ==
    (engine # 0 \/ timers # {} \/ starting # {}) => initCompleted

\* C12: handling an action message posts exactly one reply, with the
\* message's action id; it is actionError or actionComplete, an
\* actionComplete carries the action's result and the state as it is
\* after the action, and without an engine the reply is actionError and
\* the engine state and speed are as before.
C12_OneReplyPerAction ==
    [][actionReplies' # actionReplies \/ actionRequest' # actionRequest
       \/ state' # state \/ timeSpeed' # timeSpeed
       => /\ Len(actionReplies') = 1
          /\ actionReplies'[1].actionId = actionRequest'
          /\ actionReplies'[1].type \in {"actionComplete", "actionError"}
          /\ actionReplies'[1].type = "actionComplete"
                => /\ actionReplies'[1].gameState = state'
                   /\ actionReplies'[1].result = result'
          /\ engine = 0
                => /\ actionReplies'[1].type = "actionError"
                   /\ state' = state
                   /\ timeSpeed' = timeSpeed]_vars

C12_Witness ==
    /\ engine # 0
    /\ Len(actionReplies) = 1
    /\ actionReplies[1].type = "actionComplete"
    /\ actionReplies[1].actionId = 8
    /\ state.metal < 300
    /\ actionReplies[1].gameState = state

\* C13: the speed multiplier the engine's ticks use lies in [0.1, 1000],
\* whatever set_time_speed actions were performed (speeds here are whole
\* multiples of 1.0, so the range is 1 .. 1000).
C13_SpeedWithinClamp == timeSpeed >= 1 /\ timeSpeed <= 1000

\* C14: no step lowers the engine's time or tick count, a step that counts
\* a tick raises the time, and an action leaves the time as it is.
C14_ClockMonotonic ==
    [][/\ state'.time >= state.time
       /\ state'.tick >= state.tick
       /\ state'.tick # state.tick => state'.time > state.time
       /\ result' # "none" => state'.time = state.time]_vars

\* The energy balance the next tick would compute in the current state.
EnergyBalanceNow ==
    calculateEnergyBalance(state, calculateDysonEnergyProduction(state).economy)

\* C15: calculateEnergyBalance returns throttle 1 whenever the total
\* consumption is 0, throttle 0 whenever the production is 0 and the
\* consumption is positive, min(1, production / consumption) otherwise, and
\* so always a throttle within [0, 1].
C15_ThrottleContract ==
    LET b == EnergyBalanceNow
    IN  /\ b.consumption = 0 => b.throttle = 100
        /\ (b.production = 0 /\ b.consumption > 0) => b.throttle = 0
        /\ (b.production # 0 /\ b.consumption # 0)
              => b.throttle = Min(100, (100 * b.production) \div b.consumption)
        /\ b.throttle \in 0 .. 100

\* C16: no tick and no action lowers the mass of the Dyson sphere.
C16_DysonMassMonotonic ==
    [][state'.dyson_sphere.mass >= state.dyson_sphere.mass]_vars

\* C17: a zone whose depleted flag is true keeps it in every later state,
\* and no later step mines it: its remaining metal never falls and its slag
\* never grows, whatever ticks, recycling and actions follow.
C17_DepletedIsFinal ==
    [][\A z \in DOMAIN state.zones :
          state.zones[z].depleted
             => /\ state'.zones[z].depleted
                /\ state'.zones[z].metal_remaining
                      >= state.zones[z].metal_remaining
                /\ state'.zones[z].slag_produced
                      <= state.zones[z].slag_produced]_vars

\* Earth was mined out in the first tick and has been ticked again since,
\* with probes set to mine it, energy to do so and recycled metal to take.
C17_Witness ==
    /\ state.zones["earth"].depleted
    /\ state.tick = 2
    /\ state.zones["earth"].metal_remaining
          > (baseRecycleRate * baseRecyclingEfficiency) \div 100
    /\ state.probes_by_zone["earth"] > 0
    /\ state.probe_allocations_by_zone["earth"].harvest = 100
    /\ EnergyBalanceNow.throttle > 0

\* C18: in every reachable state every probe count of probes_by_zone is a
\* non-negative integer, whatever ticks and actions led to it (purchase_probe
\* with any count payload, create_transfer, replication, transfer arrivals).
C18_ProbeCountsNatural ==
    \A z \in DOMAIN state.probes_by_zone : state.probes_by_zone[z] \in Nat

\* C19: with 1 probe at earth, 1000 kg of metal in the pool, a harvest
\* allocation of 0.5 and a delta of 1 day, one engine tick mines exactly
\* 50 kg: the pool rises by 50 and earth's remaining metal falls by 50.
C19_ScenarioMinesFifty ==
    [][(/\ state.probes_by_zone["earth"] = 1
        /\ state.metal = 1000
        /\ state.probe_allocations_by_zone["earth"].harvest = 50
        /\ getDeltaTime(timeSpeed) = 1
        /\ state'.tick = state.tick + 1)
       => /\ state'.metal = state.metal + 50
          /\ state'.zones["earth"].metal_remaining
                = state.zones["earth"].metal_remaining - 50]_vars

\* The mining step the next tick would run in the current state.
MiningStepNow ==
    processMining(state, getDeltaTime(timeSpeed), EnergyBalanceNow.throttle)

\* C20: in a mining step every mined (non-depleted, non-Dyson) zone loses
\* min(rate x throttle x delta time, remaining metal), that metal goes to
\* the global pool, and the total mass removed (metal / metallicity) is the
\* metal extracted plus the slag recorded for the step.
C20_MiningConservation ==
    LET after == MiningStepNow
        throttle == EnergyBalanceNow.throttle
        minedZones == {z \in DOMAIN state.zones :
                          ~isDysonZone(z) /\ ~state.zones[z].depleted}
        taken == [z \in minedZones |->
                     state.zones[z].metal_remaining
                        - after.zones[z].metal_remaining]
        slagRecorded == [z \in minedZones |->
                            after.zones[z].slag_produced
                               - state.zones[z].slag_produced]
    IN  /\ \A z \in minedZones :
              /\ taken[z]
                    = Min((calculateMiningRate(state.probes_by_zone[z],
                              state.probe_allocations_by_zone[z].harvest)
                             * throttle * getDeltaTime(timeSpeed)) \div 100,
                          state.zones[z].metal_remaining)
              /\ taken[z] * total_mass_kg
                    = (taken[z] + slagRecorded[z]) * metal_stores_kg
        /\ after.metal - state.metal = SumFn(taken)
        /\ after.slag - state.slag = SumFn(slagRecorded)

\* Earth has been mined before and the next step is capped by what is left.
C20_Witness ==
    /\ state.tick >= 1
    /\ state.slag > 0
    /\ ~state.zones["earth"].depleted
    /\ state.zones["earth"].metal_remaining > 0
    /\ MiningStepNow.zones["earth"].metal_remaining = 0
    /\ calculateMiningRate(state.probes_by_zone["earth"],
                           state.probe_allocations_by_zone["earth"].harvest)
          * EnergyBalanceNow.throttle * getDeltaTime(timeSpeed)
          > 100 * state.zones["earth"].metal_remaining

\* The probe production of a zone as the non-derived fields give it: what
\* getZoneProbeProductionRate returns for a state without derived rates.
ProductionFromState(zoneId) ==
    IF probes_by_zone[zoneId] <= 0 \/ replicate_allocation[zoneId] <= 0 THEN 0
    ELSE probes_by_zone[zoneId] * replicate_allocation[zoneId]

\* C21: the derived display rates are no input of the simulation: a state
\* evolves as the state that differs from it only in the derived rates (the
\* one without any).  So in every tick the first continuous probe transfer
\* of the pass, if it is not paused, adds rate% of the production computed
\* from the probes and their allocation to what it has accumulated or sent.
C21_DerivedRatesAreNoInput ==
    [][(/\ time' # time
        /\ active_transfers # <<>>
        /\ active_transfers[1].type = "continuous"
        /\ active_transfers[1].resource_type = "probe"
        /\ ~active_transfers[1].paused
        /\ active_transfers[1].rate_percentage > 0)
       => LET id == active_transfers[1].id
              from == active_transfers[1].from_zone
          IN  continuousAccumulators'[id]
                 + AccScale * (ledger'[id].debited - ledger[id].debited)
                 - continuousAccumulators[id]
              = ProductionFromState(from) * active_transfers[1].rate_percentage
                   * (time' - time)]_vars

\* The next transfer pass (one day later) over the current state with the
\* records of active_transfers in the given order.
PassOver(transfers) ==
    processTransfers(PassState(probes_by_zone, stored_metal, transfers,
                               continuousAccumulators, ledger),
                     1, time + 1)

Reverse(s) == [i \in 1 .. Len(s) |-> s[Len(s) + 1 - i]]

\* The in_transit queue of every transfer after a pass, by transfer id.
QueuesAfter(st) ==
    [id \in ActiveIds(st.transfers) |->
        TransferById(st.transfers, id).in_transit]

\* C22: the transfer pass does not depend on the order of the records in
\* active_transfers: the pass over the reversed list leaves the same zone
\* stocks, the same in_transit queues and the same send accumulators.
C22_PassIgnoresOrder ==
    LET a == PassOver(active_transfers)
        b == PassOver(Reverse(active_transfers))
    IN  /\ a.probes = b.probes
        /\ a.metal = b.metal
        /\ a.acc = b.acc
        /\ QueuesAfter(a) = QueuesAfter(b)

\* C23: a research tier moves one way from researching to completed and
\* its tranche count never decreases; while researching the bonus is
\* base x e^(0.20 x t) (0.02 per tranche: 5 tranches after 10 days give
\* about 0.739); when the final tranche completes the principal doubles,
\* once, to 0.40, and the compounding restarts at the completion instant.
C23_ResearchCompounding ==
    [][LET tier == state.tier
           next == state'.tier
           days == state'.time
       IN  /\ next.tranches_completed >= tier.tranches_completed
           /\ tier.completed => next.completed
           /\ ~next.completed
                 => state'.bonus
                       = (2 * next.tranches_completed * Compounding(days))
                            \div 100
           /\ (~next.completed /\ next.tranches_completed = 5 /\ days = 10)
                 => Abs(state'.bonus - 739000) <= 500
           /\ (~tier.completed /\ next.completed)
                 => /\ next.principal = 40
                    /\ state'.bonus = 400000
           /\ next.completed
                 => /\ next.principal = 40
                    /\ state'.bonus
                          = (40 * Compounding(days - next.since)) \div 100
                    /\ tier.completed => next.since = tier.since]_vars

\* The tier was completed after the research had run for some days, and
\* has compounded since; on the way it held 5 tranches for 10 days' worth
\* of bonus (the example of the documentation is reachable, too).
C23_Witness ==
    /\ state.tier.completed
    /\ state.tier.since > 0
    /\ state.time > state.tier.since
    /\ state.bonus > 400000

TransferOfId(transfers, id) ==
    transfers[CHOOSE j \in 1 .. Len(transfers) : transfers[j].id = id]

\* C26: every batch a continuous transfer has dispatched is credited to the
\* destination once, in the first tick whose time is at or after the batch's
\* arrival_time, whether or not dispatch is paused or the rate is zero: no
\* queue ever holds an overdue batch, a tick credits exactly the batches
\* that fall due in it and takes them off the queue, and the batches not
\* yet due stay queued.
C26_BatchesArrive ==
    [][/\ \A i \in 1 .. Len(active_transfers) :
             \A k \in 1 .. Len(active_transfers[i].in_transit) :
                 active_transfers[i].in_transit[k].arrival_time > time
       /\ time' # time
             => \A i \in 1 .. Len(active_transfers) :
                   LET t == active_transfers[i]
                       after == TransferOfId(active_transfers', t.id)
                       waiting == SelectSeq(t.in_transit,
                                            LAMBDA b : b.arrival_time > time')
                       due == InTransitTotal(t.in_transit)
                                 - InTransitTotal(waiting)
                   IN  t.type = "continuous"
                          => /\ \A k \in 1 .. Len(after.in_transit) :
                                   after.in_transit[k].arrival_time > time'
                             /\ ledger'[t.id].credited
                                   = ledger[t.id].credited + due
                             /\ SubSeq(after.in_transit, 1, Len(waiting))
                                   = waiting
                             /\ Len(active_transfers) = 1
                                   => IF t.resource_type = "probe"
                                      THEN probes_by_zone'[t.to_zone]
                                              = probes_by_zone[t.to_zone] + due
                                      ELSE stored_metal'[t.to_zone]
                                              = stored_metal[t.to_zone] + due]_vars

\* A batch has been credited although its transfer was paused or had its
\* rate set to zero by the time the batch arrived.
C26_Witness ==
    \E i \in 1 .. Len(active_transfers) :
        LET t == active_transfers[i]
        IN  /\ t.type = "continuous"
            /\ t.paused \/ t.rate_percentage = 0
            /\ ledger[t.id].credited > 0
            /\ ledger[t.id].credited = ledger[t.id].debited

\* C27: once a batch is in a continuous transfer's in_transit queue its
\* departure and arrival timestamps never change: whatever the step, the
\* batches still queued afterwards are the ones queued before, unaltered,
\* and a batch added by a tick departs at the tick's time and arrives the
\* transfer time in effect at that tick later.
C27_QueuedBatchesKeepTimes ==
    [][\A i \in 1 .. Len(active_transfers) :
          LET t == active_transfers[i]
              kept == \E j \in 1 .. Len(active_transfers') :
                         active_transfers'[j].id = t.id
              after == TransferOfId(active_transfers', t.id)
              waiting == SelectSeq(t.in_transit,
                                   LAMBDA b : b.arrival_time > time')
              duration == EffectiveTransferTime(structures_by_zone, t.from_zone,
                                                t.to_zone, t.resource_type)
          IN  (t.type = "continuous" /\ kept)
                 => /\ Len(after.in_transit) >= Len(waiting)
                    /\ SubSeq(after.in_transit, 1, Len(waiting)) = waiting
                    /\ time' = time => after.in_transit = t.in_transit
                    /\ \A k \in Len(waiting) + 1 .. Len(after.in_transit) :
                          /\ after.in_transit[k].departure_time = time'
                          /\ after.in_transit[k].arrival_time
                                = time' + duration]_vars

\* A mass driver was built between two dispatches: the queue holds a batch
\* sent at the old transfer time and a later one sent at the new.
C27_Witness ==
    \E i \in 1 .. Len(active_transfers) :
        LET q == active_transfers[i].in_transit
        IN  \E k \in 1 .. Len(q), l \in 1 .. Len(q) :
               /\ k < l
               /\ q[k].arrival_time - q[k].departure_time
                     > q[l].arrival_time - q[l].departure_time

\* The batches a tick added to a transfer's queue: those queued afterwards
\* beyond the ones that were waiting before.
NewBatches(t, after, now) ==
    LET waiting == SelectSeq(t.in_transit, LAMBDA b : b.arrival_time > now)
    IN  SubSeq(after.in_transit, Len(waiting) + 1, Len(after.in_transit))

\* C28: a continuous transfer dispatches only when its accumulator has
\* reached the minimum batch (1 probe, 100 kg of metal) and the source holds
\* as much; every batch is no larger than the source's stock, is debited
\* from the source in the same step and is taken off the accumulator
\* exactly; stocks and accumulators are never negative.
C28_DispatchContract ==
    [][/\ \A z \in Zones : probes_by_zone'[z] >= 0 /\ stored_metal'[z] >= 0
       /\ \A id \in DOMAIN continuousAccumulators' :
             continuousAccumulators'[id] >= 0
       /\ time' # time
             => \A i \in 1 .. Len(active_transfers) :
                   LET t == active_transfers[i]
                       after == TransferOfId(active_transfers', t.id)
                       isProbe == t.resource_type = "probe"
                       minBatch == IF isProbe THEN MIN_PROBE_BATCH
                                   ELSE MIN_METAL_BATCH_KG
                       stock == IF isProbe THEN probes_by_zone[t.from_zone]
                                ELSE stored_metal[t.from_zone]
                       stockAfter == IF isProbe THEN probes_by_zone'[t.from_zone]
                                     ELSE stored_metal'[t.from_zone]
                       new == NewBatches(t, after, time')
                       sent == InTransitTotal(new)
                       grown == continuousAccumulators'[t.id] + sent * AccScale
                       pass == PassState(probes_by_zone, stored_metal,
                                         active_transfers,
                                         continuousAccumulators, ledger)
                       sendRate == IF isProbe THEN ProbeSendRate(pass, t)
                                   ELSE MetalSendRate(pass, t)
                   IN  t.type = "continuous"
                          => /\ \A k \in 1 .. Len(new) :
                                   /\ new[k].amount >= minBatch
                                   /\ new[k].amount <= stock
                             /\ sent <= stock
                             /\ ledger'[t.id].debited
                                   = ledger[t.id].debited + sent
                             /\ grown >= continuousAccumulators[t.id]
                             /\ t.paused
                                   => grown = continuousAccumulators[t.id]
                             /\ (i = 1 /\ ~t.paused)
                                   => grown = continuousAccumulators[t.id]
                                                 + sendRate * (time' - time)
                             /\ sent > 0
                                   => /\ ~t.paused
                                      /\ grown >= minBatch * AccScale
                                      /\ stock >= minBatch
                             /\ Len(active_transfers) = 1
                                   => stockAfter = stock - sent]_vars

\* A transfer has sent all the source held and goes on accumulating against
\* the empty source: a whole batch is waiting in its accumulator.
C28_Witness ==
    \E i \in 1 .. Len(active_transfers) :
        LET t == active_transfers[i]
        IN  /\ t.type = "continuous"
            /\ t.resource_type = "probe"
            /\ ~t.paused
            /\ ledger[t.id].debited > 0
            /\ probes_by_zone[t.from_zone] = 0
            /\ continuousAccumulators[t.id] >= MIN_PROBE_BATCH * AccScale

\* What a tick granted a continuous transfer, in hundredths: the growth of
\* its accumulator before the batches sent were taken off.
GrantedByTick(id) ==
    continuousAccumulators'[id] - continuousAccumulators[id]
        + AccScale * (ledger'[id].debited - ledger[id].debited)

\* C29: in every tick and for every source zone, the effective send rates
\* granted to the unpaused continuous metal transfers from the zone add up
\* to no more than the zone's mass-driver capacity.
C29_MetalCapacityCeiling ==
    [][time' # time
          => \A z \in Zones :
                LET granted ==
                        [i \in 1 .. Len(active_transfers) |->
                            LET t == active_transfers[i]
                            IN  IF /\ t.type = "continuous"
                                   /\ t.resource_type = "metal"
                                   /\ t.from_zone = z
                                   /\ ~t.paused
                                THEN GrantedByTick(t.id) ELSE 0]
                IN  SumFn(granted)
                       <= calculateMetalTransferCapacity(structures_by_zone, z)
                             * AccScale * (time' - time)]_vars

\* Two unpaused continuous metal transfers leave earth, and both have been
\* granted enough of the capacity to send metal.
C29_Witness ==
    \E i \in 1 .. Len(active_transfers), j \in 1 .. Len(active_transfers) :
        LET a == active_transfers[i]
            b == active_transfers[j]
        IN  /\ i < j
            /\ a.type = "continuous" /\ b.type = "continuous"
            /\ a.resource_type = "metal" /\ b.resource_type = "metal"
            /\ a.from_zone = b.from_zone
            /\ ~a.paused /\ ~b.paused
            /\ ledger[a.id].debited > 0
            /\ ledger[b.id].debited > 0

\* The replication rate processProbeOperations hands to processReplication
\* for a zone of the state, in kg per day.
ReplicationRateNow(zoneId) ==
    LET totalProbes == state.probes_by_zone[zoneId]
        allocations == state.probe_allocations_by_zone[zoneId]
    IN  IF totalProbes = 0 \/ allocations.replicate <= 0 THEN 0
        ELSE (calculateBuildingRate(totalProbes, allocations.construct)
                 * allocations.replicate) \div 100

\* C30: a tick's replication turns the stored progress p and the progress
\* added, r x delta time, into floor((p + r x delta time) / PROBE_MASS) new
\* probes and stores the remainder: afterwards 0 <= progress < PROBE_MASS
\* and PROBE_MASS x (probes added) + progress = p + r x delta time.
C30_ReplicationCarriesRemainder ==
    [][state'.tick # state.tick
          => LET deltaTime == getDeltaTime(timeSpeed)
                 progressAdded ==
                     SumFn([z \in DOMAIN state.probes_by_zone |->
                               ReplicationRateNow(z) * deltaTime])
                 probesAdded ==
                     SumFn([z \in DOMAIN state.probes_by_zone |->
                               state'.probes_by_zone[z]
                                  - state.probes_by_zone[z]])
             IN  /\ state'.construction_progress >= 0
                 /\ state'.construction_progress < PROBE_MASS
                 /\ PROBE_MASS * probesAdded + state'.construction_progress
                       = state.construction_progress + progressAdded]_vars

\* C31: a successful purchase_structure takes base cost x count off the
\* global metal and adds count to structures_by_zone[zone][structure] in
\* the one action, and leaves every other field of the state as it was.
C31_PurchaseStructureFrame ==
    [][\A s \in BuildingIds, n \in PurchaseCounts :
          (/\ E2PerformAction("purchase_structure",
                              [zone_id |-> "earth", structure_id |-> s,
                               count |-> n])
           /\ result' = "ok")
             => state' = [state EXCEPT
                             !.metal = @ - base_cost_metal[s] * n,
                             !.structures_by_zone["earth"] = @ + n]]_vars

\* The throttle the tick would compute from a state.
ThrottleOfState(st) ==
    calculateEnergyBalance(st, calculateDysonEnergyProduction(st).economy).throttle

\* C32: the probes' energy consumption depends only on the probe counts and
\* on the harvest and recycle allocations: with a zone's construct,
\* replicate or dyson allocation changed and all else equal, the total
\* consumption and the throttle are the same.
C32_OnlyHarvestAndRecycleCostEnergy ==
    \A z \in DOMAIN state.probes_by_zone, c \in {0, 100}, r \in {0, 100},
       d \in {0, 100} :
        LET other == [state EXCEPT
                         !.probe_allocations_by_zone[z] =
                             [@ EXCEPT !.construct = c, !.replicate = r,
                                       !.dyson = d]]
        IN  /\ calculateProbeEnergyConsumption(other)
                  = calculateProbeEnergyConsumption(state)
            /\ ThrottleOfState(other) = ThrottleOfState(state)

\* What a recycling step run on the state leaves unconverted of the slag it
\* processes in a zone.
UnconvertedNow(zoneId) ==
    LET deltaTime == getDeltaTime(timeSpeed)
        after == processRecycling(state, deltaTime)
    IN  slagRecycled(state, zoneId, deltaTime)
           - (after.zones[zoneId].metal_remaining
                 - state.zones[zoneId].metal_remaining)

\* C33, as stated: the salvage fraction is 0.75 with no research and stays
\* strictly below 1.0 whatever the skills, so a recycling step that
\* processes slag leaves a positive unconverted remainder.
C33_SalvageBelowOne ==
    /\ SalvageUpgradeFactor(state) = 100
          => calculateSalvageEfficiency(SalvageUpgradeFactor(state)) = 75
    /\ calculateSalvageEfficiency(SalvageUpgradeFactor(state)) < 100
    /\ \A z \in DOMAIN state.zones :
          slagRecycled(state, z, getDeltaTime(timeSpeed)) > 0
             => UnconvertedNow(z) > 0

\* C33, amended: the salvage fraction is 0.75 with no research and never
\* above 1.0, which it reaches once the upgrade factor is 4/3; a recycling
\* step never turns out more metal than the slag it processes, and leaves
\* a positive remainder whenever the fraction is below 1.0.
C33_SalvageAtMostOne ==
    LET efficiency == calculateSalvageEfficiency(SalvageUpgradeFactor(state))
    IN  /\ SalvageUpgradeFactor(state) = 100 => efficiency = 75
        /\ efficiency <= 100
        /\ 3 * SalvageUpgradeFactor(state) >= 400 => efficiency = 100
        /\ \A z \in DOMAIN state.zones :
              slagRecycled(state, z, getDeltaTime(timeSpeed)) > 0
                 => /\ UnconvertedNow(z) >= 0
                    /\ efficiency < 100 => UnconvertedNow(z) > 0
                    /\ efficiency = 100 => UnconvertedNow(z) = 0

\* Research has taken the salvage fraction to 1.0 and a zone holds slag
\* that its probes recycle: the step converts all of it.
C33_Witness ==
    /\ calculateSalvageEfficiency(SalvageUpgradeFactor(state)) = 100
    /\ \E z \in DOMAIN state.zones :
          /\ slagRecycled(state, z, getDeltaTime(timeSpeed)) > 0
          /\ UnconvertedNow(z) = 0

\* C34: in the v2 engine create_transfer actions and the transfer pass
\* conserve probes: with no replication and no purchase, no step changes
\* the number of probes summed over all zones, however many transfers from
\* one zone are under way.
C34_ProbesConserved ==
    [][SumFn(state'.probes_by_zone) = SumFn(state.probes_by_zone)]_vars

\* C35: a recycling step conserves mass: the slag the zones lose in the
\* step is the metal the step adds, counted over the global pool and the
\* zones' remaining metal together.
C35_RecyclingConservesMass ==
    LET after == processRecycling(state, getDeltaTime(timeSpeed))
        slagLost == SumFn([z \in DOMAIN state.zones |->
                              state.zones[z].slag_produced
                                 - after.zones[z].slag_produced])
        zoneMetalGained == SumFn([z \in DOMAIN state.zones |->
                                     after.zones[z].metal_remaining
                                        - state.zones[z].metal_remaining])
    IN  slagLost = zoneMetalGained + (after.metal - state.metal)

\* C36: no action and no tick is applied to an engine whose initialize()
\* has not completed: while there is no engine, or the engine's
\* initialization is pending or has failed, an action message is answered
\* with actionError and a timer tick neither runs the engine nor reports
\* its state.
C36_NoUseBeforeInitialized ==
    [][(engine = 0 \/ ~initialized[engine])
          => /\ WHandleAction => lastMessage' = "actionError"
             /\ \A t \in Engines :
                   WTimerFire(t) => /\ ticksRun' = ticksRun
                                    /\ updatesSent' = updatesSent]_vars

\* C37: starting an engine from a prior state alters no inventory the state
\* already holds: every probe count in probes_by_zone (a count of 0
\* included), every zone record and every allocation record of the prior
\* state is the same after initialize().
C37_InitializeKeepsInventory ==
    [][IStart =>
          /\ \A z \in DOMAIN state.probes_by_zone :
                state'.probes_by_zone[z] = state.probes_by_zone[z]
          /\ \A z \in DOMAIN state.zones : state'.zones[z] = state.zones[z]
          /\ \A z \in DOMAIN state.probe_allocations_by_zone :
                state'.probe_allocations_by_zone[z] =
                    state.probe_allocations_by_zone[z]]_vars

\* The unpaused continuous metal transfers that ask for metal of a zone.
MetalDemand(z) ==
    {i \in 1 .. Len(active_transfers) :
        LET t == active_transfers[i]
        IN  /\ t.type = "continuous"
            /\ t.resource_type = "metal"
            /\ t.from_zone = z
            /\ ~t.paused
            /\ stored_metal[z] * t.metal_rate_percentage > 0}

\* C38: mass-driver capacity is never left entirely unused while demand
\* exists: in a tick, a zone with positive mass-driver capacity and at least
\* one unpaused continuous metal transfer with a positive requested rate has
\* at least one of those transfers granted a positive send rate.
C38_CapacityNotIdle ==
    [][time' # time
          => \A z \in Zones :
                (/\ calculateMetalTransferCapacity(structures_by_zone, z) > 0
                 /\ MetalDemand(z) # {})
                    => \E i \in MetalDemand(z) :
                          GrantedByTick(active_transfers[i].id) > 0]_vars

\* C39: global metal is never negative in a reachable state, whatever the
\* ticks (mining, Dyson construction, recycling) and the purchase_structure
\* and purchase_probe actions, with any count payload, that led to it.
C39_MetalNeverNegative ==
    state.metal >= 0

\* C40: replication progress is attributed to the zone that produced it.
\* In a tick that starts with no progress carried over, a zone gains no
\* more probes than the progress its own probes add in the tick pays for,
\* whichever zones the engine visits before it.
C40_ProgressStaysInZone ==
    [][(state'.tick # state.tick /\ state.construction_progress = 0)
          => \A z \in DOMAIN state.probes_by_zone :
                PROBE_MASS * (state'.probes_by_zone[z] - state.probes_by_zone[z])
                   <= ReplicationRateNow(z) * getDeltaTime(timeSpeed)]_vars
====
